---- MODULE Spec2Model ----
(***************************************************************************)
(* Model of mitranim/codex: extraction of word traits from a sample, the   *)
(* validators, the pure virtual-tree walker (Traits.walk), the stateful    *)
(* randomised generator (state.walk / walkRandom / trip) and the older     *)
(* State type (State.Words / State.WordsN).                                *)
(*                                                                         *)
(* A string is a sequence of one-character strings, a glyph (sound) is a   *)
(* string of one or two characters, a path is a sequence of glyphs.        *)
(***************************************************************************)
EXTENDS Integers, Sequences, FiniteSets, TLC

VARIABLES
  sample,   \* the words given to Words(); <<>> where the traits are given
  traits,   \* the Traits the generator / walker / State works on
  tree,     \* sidecar tree of the generator or of the State
  stack,    \* call stack of the recursive walk in progress
  mode,     \* "idle", "walk" (inside a call), "panic" (crashed)
  result,   \* value returned by the last finished call
  out,      \* history: how many times each word has been returned
  eos,      \* history: how many calls have returned end-of-stream
  acc,      \* words collected by the running Words() / WordsN() call
  call,     \* the method in progress and its argument
  input,    \* the argument of the validator or tokenizer under test
  other     \* the second generator of the same Traits, while it is not running

vars == <<sample, traits, tree, stack, mode, result, out, eos, acc, call, input,
          other>>

(******************************* bounds ************************************)

\* most characters in one sample, all its words together
MaxChars == 6
\* largest count given to State.WordsN
MaxNum == 2
\* most nodes in the virtual tree of a State the model runs
MaxStateNodes == 4
\* most nodes in the virtual tree of a generator the model runs
MaxNodes == 5
\* the same, for the runs under fairness
MaxFairNodes == 4
\* calls made after the first one that returned end-of-stream
MaxEos == 2
\* longest sequence of sounds given to validPart on its own
MaxPath == 6
\* size of a sample given to Examine: its characters plus its words
MaxExam == 7

\* the longest sequence of sounds given to the validators after an extraction
MaxCheck == 2

\* most nodes in the virtual tree of the traits two generators are made from
MaxPairNodes == 3

\* most nodes in the virtual tree of the traits the pure walker is stepped on
MaxWalkNodes == 5
\* most calls of Traits.Words on the same traits
MaxWalks == 2

\* most nodes in the virtual tree of the traits whose first word is aimed at
MaxAimNodes == 4

(***************************** glyph tables ********************************)

Mono(cs) == {<<c>> : c \in cs}

knownSounds ==
  {<<"a","e">>, <<"c","h">>, <<"n","g">>, <<"p","h">>, <<"s","h">>,
   <<"t","h">>, <<"z","h">>}
  \cup Mono({"a","b","c","d","e","f","g","h","i","j","k","l","m",
             "n","o","p","q","r","s","t","u","v","w","x","y","z"})

knownVowels == {<<"a","e">>} \cup Mono({"a","e","i","o","u","y"})

(******************************* utilities *********************************)

NoCall == [op |-> "none", num |-> 0, left |-> 0]

Min(a, b) == IF a < b THEN a ELSE b

SeqToSet(s) == {s[i] : i \in DOMAIN s}

\* join(a, ""): concatenation of the glyphs of a path
RECURSIVE join(_)
join(a) == IF a = <<>> THEN <<>> ELSE Head(a) \o join(Tail(a))

\* variant: a known monograph is taken before a digraph is looked for
RECURSIVE getSoundsFromMonoFirst(_, _, _)
getSoundsFromMonoFirst(word, known, i) ==
  IF i > Len(word) THEN [ok |-> TRUE, sounds |-> <<>>]
  ELSE IF <<word[i]>> \in known
    THEN LET r == getSoundsFromMonoFirst(word, known, i + 1)
         IN  [ok |-> r.ok, sounds |-> <<(<<word[i]>>)>> \o r.sounds]
  ELSE IF i + 1 <= Len(word) /\ <<word[i], word[i+1]>> \in known
    THEN LET r == getSoundsFromMonoFirst(word, known, i + 2)
         IN  [ok |-> r.ok, sounds |-> <<(<<word[i], word[i+1]>>)>> \o r.sounds]
  ELSE [ok |-> FALSE, sounds |-> <<>>]

\* variant: the index is not advanced past the second character of a digraph
RECURSIVE getSoundsFromNoSkip(_, _, _)
getSoundsFromNoSkip(word, known, i) ==
  IF i > Len(word) THEN [ok |-> TRUE, sounds |-> <<>>]
  ELSE IF i + 1 <= Len(word) /\ <<word[i], word[i+1]>> \in known
    THEN LET r == getSoundsFromNoSkip(word, known, i + 1)
         IN  [ok |-> r.ok, sounds |-> <<(<<word[i], word[i+1]>>)>> \o r.sounds]
  ELSE IF <<word[i]>> \in known
    THEN LET r == getSoundsFromNoSkip(word, known, i + 1)
         IN  [ok |-> r.ok, sounds |-> <<(<<word[i]>>)>> \o r.sounds]
  ELSE [ok |-> FALSE, sounds |-> <<>>]

\* getSounds: longest-match scan; ok = FALSE is "encountered unknown symbol"
RECURSIVE getSoundsFrom(_, _, _)
getSoundsFrom(word, known, i) ==
  IF i > Len(word) THEN [ok |-> TRUE, sounds |-> <<>>]
  ELSE IF i + 1 <= Len(word) /\ <<word[i], word[i+1]>> \in known
    THEN LET r == getSoundsFrom(word, known, i + 2)
         IN  [ok |-> r.ok, sounds |-> <<(<<word[i], word[i+1]>>)>> \o r.sounds]
  ELSE IF <<word[i]>> \in known
    THEN LET r == getSoundsFrom(word, known, i + 1)
         IN  [ok |-> r.ok, sounds |-> <<(<<word[i]>>)>> \o r.sounds]
  ELSE [ok |-> FALSE, sounds |-> <<>>]

getSounds(word, known) == getSoundsFrom(word, known, 1)

\* variant: the reverse of every pair is added too
getPairsBoth(sounds) ==
  {<<sounds[i], sounds[i+1]>> : i \in 1 .. (Len(sounds) - 1)}
    \cup {<<sounds[i+1], sounds[i]>> : i \in 1 .. (Len(sounds) - 1)}

getPairs(sounds) == {<<sounds[i], sounds[i+1]>> : i \in 1 .. (Len(sounds) - 1)}

\* variant: the upper limit is off by one
validLength34(word) == Len(word) > 1 /\ Len(word) < 34

validLength(word) == Len(word) > 1 /\ Len(word) < 33

countIntersections(strings, set) ==
  Cardinality({i \in DOMAIN strings : strings[i] \in set})

\* longest run of elements that are (inSet = TRUE) / are not members of set
RECURSIVE maxRun(_, _, _, _, _)
maxRun(sounds, set, inSet, count, max) ==
  IF sounds = <<>> THEN max
  ELSE IF (Head(sounds) \in set) # inSet
    THEN maxRun(Tail(sounds), set, inSet, 0, max)
    ELSE maxRun(Tail(sounds), set, inSet, count + 1,
                IF count + 1 > max THEN count + 1 ELSE max)

maxConsequtiveVowels(sounds, vowels) == maxRun(sounds, vowels, TRUE, 0, 0)

maxConsequtiveConsonants(sounds, vowels) == maxRun(sounds, vowels, FALSE, 0, 0)

\* occurrences of the pair (prev, current) in strings
countPair(strings, prev, current) ==
  Cardinality({j \in 2 .. Len(strings) :
                 strings[j-1] = prev /\ strings[j] = current})

(********************************* Traits **********************************)

\* new(Traits): the zero value
\* isNil: the pointer is nil, and the record stands for no Traits at all
ZeroTraits ==
  [MinNSounds |-> 0, MaxNSounds |-> 0, MinNVowels |-> 0, MaxNVowels |-> 0,
   MaxConseqVow |-> 0, MaxConseqCons |-> 0, SoundSet |-> {}, PairSet |-> {},
   KnownSounds |-> {}, KnownVowels |-> {}, isNil |-> FALSE]

\* a nil *Traits, such as NewTraits returns with an error
NilTraits == [ZeroTraits EXCEPT !.isNil = TRUE]

Traits_knownSounds(T) == IF T.KnownSounds # {} THEN T.KnownSounds ELSE knownSounds

\* variant: the vowels of the traits are added to the default vowels
Traits_knownVowelsBoth(T) == T.KnownVowels \cup knownVowels

Traits_knownVowels(T) == IF T.KnownVowels # {} THEN T.KnownVowels ELSE knownVowels

Traits_countVowels(T, sounds) == countIntersections(sounds, Traits_knownVowels(T))

\* variant: the sounds and pairs are merged before the two sounds are counted
examineWordMergeFirst(T, word) ==
  IF ~validLength(word) THEN [err |-> "length", traits |-> T]
  ELSE LET gs == getSounds(word, Traits_knownSounds(T)) IN
  IF ~gs.ok THEN [err |-> "symbol", traits |-> T]
  ELSE LET sounds == gs.sounds IN
  IF Len(sounds) < 2
    THEN [err |-> "sounds",
          traits |-> [T EXCEPT !.SoundSet = @ \cup SeqToSet(sounds)]]
  ELSE
    LET n  == Len(sounds)
        v  == Traits_countVowels(T, sounds)
        rv == maxConsequtiveVowels(sounds, Traits_knownVowels(T))
        rc == maxConsequtiveConsonants(sounds, Traits_knownVowels(T))
    IN [err |-> "",
        traits |->
          [T EXCEPT
             !.MinNSounds = IF T.MinNSounds = 0 \/ n < T.MinNSounds THEN n ELSE @,
             !.MaxNSounds = IF n > T.MaxNSounds THEN n ELSE @,
             !.MinNVowels = IF T.MinNVowels = 0 \/ v < T.MinNVowels THEN v ELSE @,
             !.MaxNVowels = IF v > T.MaxNVowels THEN v ELSE @,
             !.MaxConseqVow = IF rv > T.MaxConseqVow THEN rv ELSE @,
             !.MaxConseqCons = IF rc > T.MaxConseqCons THEN rc ELSE @,
             !.SoundSet = @ \cup SeqToSet(sounds),
             !.PairSet = @ \cup getPairs(sounds)]]

\* variant: the largest number of vowels is not merged
examineWordNoMaxVowels(T, word) ==
  IF ~validLength(word) THEN [err |-> "length", traits |-> T]
  ELSE LET gs == getSounds(word, Traits_knownSounds(T)) IN
  IF ~gs.ok THEN [err |-> "symbol", traits |-> T]
  ELSE LET sounds == gs.sounds IN
  IF Len(sounds) < 2 THEN [err |-> "sounds", traits |-> T]
  ELSE
    LET n  == Len(sounds)
        v  == Traits_countVowels(T, sounds)
        rv == maxConsequtiveVowels(sounds, Traits_knownVowels(T))
        rc == maxConsequtiveConsonants(sounds, Traits_knownVowels(T))
    IN [err |-> "",
        traits |->
          [T EXCEPT
             !.MinNSounds = IF T.MinNSounds = 0 \/ n < T.MinNSounds THEN n ELSE @,
             !.MaxNSounds = IF n > T.MaxNSounds THEN n ELSE @,
             !.MinNVowels = IF T.MinNVowels = 0 \/ v < T.MinNVowels THEN v ELSE @,
             !.MaxConseqVow = IF rv > T.MaxConseqVow THEN rv ELSE @,
             !.MaxConseqCons = IF rc > T.MaxConseqCons THEN rc ELSE @,
             !.SoundSet = @ \cup SeqToSet(sounds),
             !.PairSet = @ \cup getPairs(sounds)]]

\* Traits.examineWord: err = "" on success, and then traits is the merge
examineWord(T, word) ==
  IF ~validLength(word) THEN [err |-> "length", traits |-> T]
  ELSE LET gs == getSounds(word, Traits_knownSounds(T)) IN
  IF ~gs.ok THEN [err |-> "symbol", traits |-> T]
  ELSE LET sounds == gs.sounds IN
  IF Len(sounds) < 2 THEN [err |-> "sounds", traits |-> T]
  ELSE
    LET n  == Len(sounds)
        v  == Traits_countVowels(T, sounds)
        rv == maxConsequtiveVowels(sounds, Traits_knownVowels(T))
        rc == maxConsequtiveConsonants(sounds, Traits_knownVowels(T))
    IN [err |-> "",
        traits |->
          [T EXCEPT
             !.MinNSounds = IF T.MinNSounds = 0 \/ n < T.MinNSounds THEN n ELSE @,
             !.MaxNSounds = IF n > T.MaxNSounds THEN n ELSE @,
             !.MinNVowels = IF T.MinNVowels = 0 \/ v < T.MinNVowels THEN v ELSE @,
             !.MaxNVowels = IF v > T.MaxNVowels THEN v ELSE @,
             !.MaxConseqVow = IF rv > T.MaxConseqVow THEN rv ELSE @,
             !.MaxConseqCons = IF rc > T.MaxConseqCons THEN rc ELSE @,
             !.SoundSet = @ \cup SeqToSet(sounds),
             !.PairSet = @ \cup getPairs(sounds)]]

\* Traits.Examine: examine the words in order, stop at the first error
RECURSIVE Examine(_, _)
Examine(T, words) ==
  IF words = <<>> THEN [err |-> "", traits |-> T]
  ELSE LET r == examineWord(T, Head(words)) IN
       IF r.err # "" THEN r ELSE Examine(r.traits, Tail(words))

NewTraits(words) == Examine(ZeroTraits, words)

(******************************* validators ********************************)

\* variant: condition (2) is tested for the last pair only
validPairsLast(T, sounds) ==
  \A i \in 2 .. Len(sounds) :
    /\ ~ (i >= 4 /\ i = Len(sounds)
            /\ <<sounds[i-3], sounds[i-2]>> = <<sounds[i-1], sounds[i]>>)
    /\ ~ (countPair(SubSeq(sounds, 1, i - 1), sounds[i-1], sounds[i]) > 2)

\* Traits.validPairs: condition (2) from index 3 on, condition (3) with the
\* pairs that end before the current sound
validPairs(T, sounds) ==
  \A i \in 2 .. Len(sounds) :
    /\ ~ (i >= 4 /\ <<sounds[i-3], sounds[i-2]>> = <<sounds[i-1], sounds[i]>>)
    /\ ~ (countPair(SubSeq(sounds, 1, i - 1), sounds[i-1], sounds[i]) > 2)

\* variant: the vowel cap tested with >= instead of >
validPartGE(T, sounds) ==
  IF \/ Traits_countVowels(T, sounds) >= T.MaxNVowels
     \/ maxConsequtiveVowels(sounds, Traits_knownVowels(T)) > T.MaxConseqVow
     \/ maxConsequtiveConsonants(sounds, Traits_knownVowels(T)) > T.MaxConseqCons
    THEN FALSE
  ELSE IF Len(sounds) = 1 /\ \E pair \in T.PairSet : pair[1] = sounds[1]
    THEN TRUE
  ELSE IF Len(sounds) > 1 /\ ~validPairs(T, sounds)
    THEN FALSE
  ELSE TRUE

validPart(T, sounds) ==
  IF \/ Traits_countVowels(T, sounds) > T.MaxNVowels
     \/ maxConsequtiveVowels(sounds, Traits_knownVowels(T)) > T.MaxConseqVow
     \/ maxConsequtiveConsonants(sounds, Traits_knownVowels(T)) > T.MaxConseqCons
    THEN FALSE
  ELSE IF Len(sounds) = 1 /\ \E pair \in T.PairSet : pair[1] = sounds[1]
    THEN TRUE
  ELSE IF Len(sounds) > 1 /\ ~validPairs(T, sounds)
    THEN FALSE
  ELSE TRUE

\* variant: the sound count is not checked
checkPartNoLen(T, sounds) ==
  LET nVow == Traits_countVowels(T, sounds) IN
  IF nVow < T.MinNVowels \/ nVow > T.MaxNVowels THEN FALSE
  ELSE TRUE

checkPart(T, sounds) ==
  LET nVow == Traits_countVowels(T, sounds) IN
  IF nVow < T.MinNVowels \/ nVow > T.MaxNVowels THEN FALSE
  ELSE IF Len(sounds) < T.MinNSounds \/ Len(sounds) > T.MaxNSounds THEN FALSE
  ELSE TRUE

validComplete(T, sounds) == validPart(T, sounds) /\ checkPart(T, sounds)

(******************* Traits, walker: the perf.go versions ******************)

\* the characters the regexp ^\w+$ accepts
WordChars ==
  {"a","b","c","d","e","f","g","h","i","j","k","l","m",
   "n","o","p","q","r","s","t","u","v","w","x","y","z",
   "A","B","C","D","E","F","G","H","I","J","K","L","M",
   "N","O","P","Q","R","S","T","U","V","W","X","Y","Z",
   "0","1","2","3","4","5","6","7","8","9","_"}

validInput(word) ==
  ~ (Len(word) < 2 \/ Len(word) > 64 \/ \E i \in DOMAIN word : word[i] \notin WordChars)

\* examine: the traits of one word; err = "" on success
examine(word) ==
  IF ~validInput(word) THEN [err |-> "invalid", traits |-> ZeroTraits]
  ELSE LET gs == getSounds(word, knownSounds) IN
  IF ~gs.ok THEN [err |-> "symbol", traits |-> ZeroTraits]
  ELSE LET sounds == gs.sounds IN
  IF Len(sounds) < 2 THEN [err |-> "sounds", traits |-> ZeroTraits]
  ELSE [err |-> "",
        traits |->
          [ZeroTraits EXCEPT
             !.MinNSounds = Len(sounds),
             !.MaxNSounds = Len(sounds),
             !.MaxConseqVow = maxConsequtiveVowels(sounds, knownVowels),
             !.MaxConseqCons = maxConsequtiveConsonants(sounds, knownVowels),
             !.SoundSet = SeqToSet(sounds),
             !.MinNVowels = countIntersections(sounds, knownVowels),
             !.MaxNVowels = countIntersections(sounds, knownVowels),
             !.PairSet = getPairs(sounds)]]

\* the loop of examineMany: merge the traits of the words into T
RECURSIVE examineManyFrom(_, _)
examineManyFrom(T, words) ==
  IF words = <<>> THEN [err |-> "", traits |-> T]
  ELSE LET r == examine(Head(words)) IN
  IF r.err # "" THEN [err |-> r.err, traits |-> ZeroTraits]
  ELSE LET tr == r.traits IN
    examineManyFrom(
      [T EXCEPT
         !.MinNSounds = IF T.MinNSounds = 0 \/
                           (tr.MinNSounds > 0 /\ tr.MinNSounds < T.MinNSounds)
                        THEN tr.MinNSounds ELSE @,
         !.MaxNSounds = IF tr.MaxNSounds > T.MaxNSounds THEN tr.MaxNSounds ELSE @,
         !.MinNVowels = IF T.MinNVowels = 0 \/
                           (tr.MinNVowels > 0 /\ tr.MinNVowels < T.MinNVowels)
                        THEN tr.MinNVowels ELSE @,
         !.MaxNVowels = IF tr.MaxNVowels > T.MaxNVowels THEN tr.MaxNVowels ELSE @,
         !.MaxConseqVow = IF tr.MaxConseqVow > T.MaxConseqVow
                          THEN tr.MaxConseqVow ELSE @,
         !.MaxConseqCons = IF tr.MaxConseqCons > T.MaxConseqCons
                           THEN tr.MaxConseqCons ELSE @,
         !.SoundSet = @ \cup tr.SoundSet,
         !.PairSet = @ \cup tr.PairSet],
      Tail(words))

examineMany(words) == examineManyFrom(ZeroTraits, words)

\* validPairs of perf.go: also tests the membership of every pair
validPairs1(T, sounds) ==
  \A i \in 2 .. Len(sounds) :
    /\ <<sounds[i-1], sounds[i]>> \in T.PairSet
    /\ ~ (i >= 4 /\ <<sounds[i-3], sounds[i-2]>> = <<sounds[i-1], sounds[i]>>)
    /\ ~ (countPair(SubSeq(sounds, 1, i - 1), sounds[i-1], sounds[i]) > 2)

validPart1(T, sounds) ==
  IF \/ countIntersections(sounds, knownVowels) > T.MaxNVowels
     \/ maxConsequtiveVowels(sounds, knownVowels) > T.MaxConseqVow
     \/ maxConsequtiveConsonants(sounds, knownVowels) > T.MaxConseqCons
    THEN FALSE
  ELSE IF Len(sounds) = 1 /\ \E pair \in T.PairSet : pair[1] = sounds[1]
    THEN TRUE
  ELSE IF Len(sounds) > 1 /\ ~validPairs1(T, sounds)
    THEN FALSE
  ELSE TRUE

checkPart1(T, sounds) ==
  LET nVow == countIntersections(sounds, knownVowels) IN
  IF nVow < T.MinNVowels \/ nVow > T.MaxNVowels THEN FALSE
  ELSE IF Len(sounds) < T.MinNSounds \/ Len(sounds) > T.MaxNSounds THEN FALSE
  ELSE TRUE

\* Traits.walk: the set of paths the iterator is called on, from sounds on
RECURSIVE Traits_walk(_, _)
Traits_walk(T, sounds) ==
  IF Len(sounds) = 0
    THEN UNION {Traits_walk(T, <<first>>) : first \in {pair[1] : pair \in T.PairSet}}
    ELSE UNION {LET path == Append(sounds, pair[2]) IN
                IF ~validPart1(T, path) THEN {}
                ELSE (IF checkPart1(T, path) THEN {path} ELSE {})
                     \cup Traits_walk(T, path)
                : pair \in {q \in T.PairSet : q[1] = sounds[Len(sounds)]}}

\* Traits.Words: the joined paths, as a set
Traits_Words(T) == {join(path) : path \in Traits_walk(T, <<>>)}

(****************************** sidecar tree *******************************)

(* The sidecar is kept flat.  made: the paths whose node object exists     *)
(* (the root included once the tree is allocated); kids: for every node    *)
(* whose child map is non-nil, the keys of that map; visited: the paths    *)
(* whose node has visited = true.  Deleting a key drops the whole subtree. *)

EmptyTree == [made |-> {}, kids |-> <<>>, visited |-> {}]

IsPrefix(p, q) == Len(p) <= Len(q) /\ SubSeq(q, 1, Len(p)) = p

\* delete(node.nodes, sound) for the node at path
DeleteKey(t, path, sound) ==
  LET gone(q) == IsPrefix(Append(path, sound), q) IN
  [made    |-> {q \in t.made : ~gone(q)},
   kids    |-> [q \in {r \in DOMAIN t.kids : ~gone(r)} |->
                  IF q = path THEN t.kids[q] \ {sound} ELSE t.kids[q]],
   visited |-> {q \in t.visited : ~gone(q)}]

\* tree.at: find or create the node under path; writing into a nil child
\* map is a run-time panic (ok = FALSE)
RECURSIVE atFrom(_, _, _)
atFrom(t, path, k) ==
  IF k > Len(path) THEN [ok |-> TRUE, t |-> t]
  ELSE LET node  == SubSeq(path, 1, k - 1)
           child == SubSeq(path, 1, k)
       IN IF child \in t.made THEN atFrom(t, path, k + 1)
          ELSE IF node \notin DOMAIN t.kids THEN [ok |-> FALSE, t |-> t]
          ELSE atFrom([t EXCEPT !.made = @ \cup {child},
                                !.kids[node] = @ \cup {path[k]}],
                      path, k + 1)

at(t, path) == atFrom(t, path, 1)

\* variant: the pairs are followed from their second sound to their first
sproutBackwards(pairs, path) ==
  IF Len(path) = 0 THEN {pair[1] : pair \in pairs}
  ELSE {pair[1] : pair \in {q \in pairs : q[2] = path[Len(path)]}}

\* sprout: the child candidates of the node at path
sprout(pairs, path) ==
  IF Len(path) = 0 THEN {pair[1] : pair \in pairs}
  ELSE {pair[2] : pair \in {q \in pairs : q[1] = path[Len(path)]}}

\* variant: an empty child map is sprouted again, like a nil one
SproutedIfEmpty(t, T, path) ==
  IF path \in DOMAIN t.kids /\ t.kids[path] # {} THEN t
  ELSE [t EXCEPT !.kids = [q \in DOMAIN t.kids \cup {path} |->
                             IF q = path THEN sprout(T.PairSet, path)
                             ELSE t.kids[q]]]

\* if node.nodes == nil { node.nodes = sprout(...) }
Sprouted(t, T, path) ==
  IF path \in DOMAIN t.kids THEN t
  ELSE [t EXCEPT !.kids = [q \in DOMAIN t.kids \cup {path} |->
                             IF q = path THEN sprout(T.PairSet, path)
                             ELSE t.kids[q]]]

(**************************** generator (state) ****************************)

(* A frame is one activation of state.walk: sounds is its argument, todo   *)
(* the keys of the shuffled snapshot it has not reached yet, cur the key   *)
(* of the iteration in progress, perm the indices of the permutation the   *)
(* visitor of walkRandom has not reached yet.  pc: "loop" at the head of   *)
(* the loop, "called" inside the recursive call, "iter" inside the         *)
(* visitor.  A random order is drawn lazily, one element at a time.        *)

Frame(sounds, todo) ==
  [sounds |-> sounds, todo |-> todo, cur |-> <<>>, perm |-> {}, pc |-> "loop"]

Top == stack[Len(stack)]

SetTop(f) == [stack EXCEPT ![Len(stack)] = f]

\* history of the returned words: 1 = returned once, 2 = more than once
Bump(b, w) == [x \in DOMAIN b \cup {w} |->
                 IF x \in DOMAIN b THEN (IF x = w THEN 2 ELSE b[x]) ELSE 1]

\* the value interrupt() panics with
panicMsg == "early exit through panic"

\* the run-time error of this.traits.PairSet with a nil traits pointer
NilDeref == "invalid memory address or nil pointer dereference"

\* variant: every panic is recovered and dropped
aidAll(msg) == ""

\* aid(): recover; a panic other than the one of interrupt() is raised
\* again with the value recovered.  msg is the value of the panic under
\* way; the result is the value of the panic that leaves trip, "" for none
aid(msg) == IF msg # "" /\ msg # panicMsg THEN msg ELSE ""

\* entry of state.walk for the given path: find or create the node, sprout
\* it when its map is nil
walkEnter(t, T, sounds) ==
  LET a == at(t, sounds) IN
  IF a.ok THEN [ok |-> TRUE, t |-> Sprouted(a.t, T, sounds)] ELSE a

\* gen(): the closure of Traits.Generator starts trip -> walkRandom -> walk
Call ==
  /\ mode = "idle"
  /\ eos < MaxEos
  /\ LET t0 == IF <<>> \in tree.made THEN tree
               ELSE [tree EXCEPT !.made = @ \cup {<<>>}]
         e  == walkEnter(t0, traits, <<>>)
     IN IF traits.isNil
          THEN \* sprout(this.traits.PairSet) dereferences the nil pointer
               LET msg == aid(NilDeref) IN
               /\ tree' = t0
               /\ stack' = <<>>
               /\ mode' = IF msg = "" THEN "idle" ELSE "panic"
               /\ result' = IF msg = "" THEN <<>> ELSE <<msg>>
          ELSE /\ tree' = e.t
               /\ stack' = <<Frame(<<>>, e.t.kids[<<>>])>>
               /\ mode' = "walk"
               /\ result' = result
  /\ UNCHANGED <<other, input, sample, traits, out, eos, acc, call>>

\* loop body, path is not a valid partial word: forget the key
WalkReject ==
  /\ mode = "walk" /\ Top.pc = "loop"
  /\ \E sound \in Top.todo :
       LET path == Append(Top.sounds, sound) IN
       /\ ~validPart(traits, path)
       /\ tree' = DeleteKey(tree, Top.sounds, sound)
       /\ stack' = SetTop([Top EXCEPT !.todo = @ \ {sound}])
  /\ UNCHANGED <<other, input, sample, traits, mode, result, out, eos, acc, call>>

\* variant: the walk goes into every candidate, a valid partial word or not
WalkDescendAny ==
  /\ mode = "walk" /\ Top.pc = "loop"
  /\ \E sound \in Top.todo :
       LET path == Append(Top.sounds, sound)
           e    == walkEnter(tree, traits, path)
       IN /\ tree' = e.t
          /\ IF e.ok
               THEN /\ stack' = Append(SetTop([Top EXCEPT !.todo = @ \ {sound},
                                                         !.cur = sound,
                                                         !.pc = "called"]),
                                       Frame(path, e.t.kids[path]))
                    /\ mode' = mode
               ELSE /\ stack' = stack
                    /\ mode' = "panic"
  /\ UNCHANGED <<other, input, sample, traits, result, out, eos, acc, call>>

\* loop body, path is a valid partial word: recursive call this.walk(path)
WalkDescend ==
  /\ mode = "walk" /\ Top.pc = "loop"
  /\ \E sound \in Top.todo :
       LET path == Append(Top.sounds, sound)
           e    == walkEnter(tree, traits, path)
       IN /\ validPart(traits, path)
          /\ tree' = e.t
          /\ IF e.ok
               THEN /\ stack' = Append(SetTop([Top EXCEPT !.todo = @ \ {sound},
                                                         !.cur = sound,
                                                         !.pc = "called"]),
                                       Frame(path, e.t.kids[path]))
                    /\ mode' = mode
               ELSE /\ stack' = stack
                    /\ mode' = "panic"
  /\ UNCHANGED <<other, input, sample, traits, result, out, eos, acc, call>>

\* variant: the call returns while keys of its snapshot are still to come
WalkReturnEarly ==
  /\ mode = "walk" /\ Len(stack) > 1 /\ Top.pc = "loop"
  /\ LET caller == stack[Len(stack) - 1]
         path   == Append(caller.sounds, caller.cur)
         rest   == SubSeq(stack, 1, Len(stack) - 2)
         a      == at(tree, path)
     IN IF ~a.ok
          THEN /\ mode' = "panic" /\ UNCHANGED <<tree, stack>>
          ELSE /\ mode' = mode
               /\ IF path \in a.t.visited
                    THEN /\ tree' = DeleteKey(a.t, caller.sounds, caller.cur)
                         /\ stack' = Append(rest, [caller EXCEPT !.pc = "loop",
                                                                 !.cur = <<>>])
                    ELSE /\ tree' = a.t
                         /\ stack' = Append(rest,
                              [caller EXCEPT !.pc = "iter",
                                             !.perm = 0 .. (Len(path) - 1)])
  /\ UNCHANGED <<other, input, sample, traits, result, out, eos, acc, call>>

\* the recursive call returns; the caller tests node.at(sound).visited
WalkReturn ==
  /\ mode = "walk" /\ Len(stack) > 1 /\ Top.pc = "loop" /\ Top.todo = {}
  /\ LET caller == stack[Len(stack) - 1]
         path   == Append(caller.sounds, caller.cur)
         rest   == SubSeq(stack, 1, Len(stack) - 2)
         a      == at(tree, path)
     IN IF ~a.ok
          THEN /\ mode' = "panic" /\ UNCHANGED <<tree, stack>>
          ELSE /\ mode' = mode
               /\ IF path \in a.t.visited
                    THEN /\ tree' = DeleteKey(a.t, caller.sounds, caller.cur)
                         /\ stack' = Append(rest, [caller EXCEPT !.pc = "loop",
                                                                 !.cur = <<>>])
                    ELSE /\ tree' = a.t
                         /\ stack' = Append(rest,
                              [caller EXCEPT !.pc = "iter",
                                             !.perm = 0 .. (Len(path) - 1)])
  /\ UNCHANGED <<other, input, sample, traits, result, out, eos, acc, call>>

\* visitor of walkRandom, an index below 1: continue
IterSkip ==
  /\ mode = "walk" /\ Top.pc = "iter"
  /\ \E index \in Top.perm :
       /\ index < 1
       /\ stack' = SetTop([Top EXCEPT !.perm = @ \ {index}])
  /\ UNCHANGED <<other, input, sample, traits, tree, mode, result, out, eos, acc, call>>

\* variant: the subpath is marked and passed over whatever checkPart says
IterVisitAny ==
  /\ mode = "walk" /\ Top.pc = "iter"
  /\ \E index \in Top.perm :
       LET sounds == Append(Top.sounds, Top.cur)
           path   == SubSeq(sounds, 1, index + 1)
           a      == at(tree, path)
       IN /\ index >= 1
          /\ IF ~a.ok
               THEN /\ mode' = "panic" /\ UNCHANGED <<tree, stack>>
               ELSE /\ tree' = [a.t EXCEPT !.visited = @ \cup {path}]
                    /\ stack' = SetTop([Top EXCEPT !.perm = @ \ {index}])
                    /\ mode' = mode
  /\ UNCHANGED <<other, input, sample, traits, result, out, eos, acc, call>>

\* visitor of walkRandom, the subpath is already visited, or is marked now
\* and fails checkPart
IterVisit ==
  /\ mode = "walk" /\ Top.pc = "iter"
  /\ \E index \in Top.perm :
       LET sounds == Append(Top.sounds, Top.cur)
           path   == SubSeq(sounds, 1, index + 1)
           a      == at(tree, path)
       IN /\ index >= 1
          /\ IF ~a.ok
               THEN /\ mode' = "panic" /\ UNCHANGED <<tree, stack>>
               ELSE /\ path \in a.t.visited \/ ~checkPart(traits, path)
                    /\ tree' = [a.t EXCEPT !.visited = @ \cup {path}]
                    /\ stack' = SetTop([Top EXCEPT !.perm = @ \ {index}])
                    /\ mode' = mode
  /\ UNCHANGED <<other, input, sample, traits, result, out, eos, acc, call>>

\* variant: the iterator does not interrupt the walk after the word
IterEmitOn ==
  /\ mode = "walk" /\ Top.pc = "iter"
  /\ \E index \in Top.perm :
       LET sounds == Append(Top.sounds, Top.cur)
           path   == SubSeq(sounds, 1, index + 1)
           a      == at(tree, path)
       IN /\ index >= 1
          /\ a.ok
          /\ path \notin a.t.visited
          /\ checkPart(traits, path)
          /\ tree' = [a.t EXCEPT !.visited = @ \cup {path}]
          /\ result' = join(path)
          /\ out' = Bump(out, join(path))
          /\ stack' = SetTop([Top EXCEPT !.perm = @ \ {index}])
  /\ mode' = mode
  /\ UNCHANGED <<other, input, sample, traits, eos, acc, call>>

\* variant: the key of the path given to the visitor is deleted with the
\* first word found on it
IterEmitForget ==
  /\ mode = "walk" /\ Top.pc = "iter"
  /\ \E index \in Top.perm :
       LET sounds == Append(Top.sounds, Top.cur)
           path   == SubSeq(sounds, 1, index + 1)
           a      == at(tree, path)
       IN /\ index >= 1
          /\ a.ok
          /\ path \notin a.t.visited
          /\ checkPart(traits, path)
          /\ tree' = DeleteKey([a.t EXCEPT !.visited = @ \cup {path}],
                               Top.sounds, Top.cur)
          /\ result' = join(path)
          /\ out' = Bump(out, join(path))
  /\ stack' = <<>>
  /\ mode' = "idle"
  /\ UNCHANGED <<other, input, sample, traits, eos, acc, call>>

\* variant: only the whole path given to the visitor is emitted
IterEmitLeaf ==
  /\ mode = "walk" /\ Top.pc = "iter"
  /\ \E index \in Top.perm :
       LET sounds == Append(Top.sounds, Top.cur)
           path   == SubSeq(sounds, 1, index + 1)
           a      == at(tree, path)
       IN /\ index >= 1
          /\ index + 1 = Len(sounds)
          /\ a.ok
          /\ path \notin a.t.visited
          /\ checkPart(traits, path)
          /\ tree' = [a.t EXCEPT !.visited = @ \cup {path}]
          /\ result' = join(path)
          /\ out' = Bump(out, join(path))
  /\ stack' = <<>>
  /\ mode' = "idle"
  /\ UNCHANGED <<other, input, sample, traits, eos, acc, call>>

\* variant: the emitted node is not marked visited
IterEmitNoMark ==
  /\ mode = "walk" /\ Top.pc = "iter"
  /\ \E index \in Top.perm :
       LET sounds == Append(Top.sounds, Top.cur)
           path   == SubSeq(sounds, 1, index + 1)
           a      == at(tree, path)
       IN /\ index >= 1
          /\ a.ok
          /\ path \notin a.t.visited
          /\ checkPart(traits, path)
          /\ tree' = a.t
          /\ result' = join(path)
          /\ out' = Bump(out, join(path))
  /\ stack' = <<>>
  /\ mode' = "idle"
  /\ UNCHANGED <<other, input, sample, traits, eos, acc, call>>

\* visitor of walkRandom, the subpath is new and a complete word: mark it,
\* hand it to the iterator of trip, which interrupts the walk; the closure
\* of Generator returns the joined word
IterEmit ==
  /\ mode = "walk" /\ Top.pc = "iter"
  /\ \E index \in Top.perm :
       LET sounds == Append(Top.sounds, Top.cur)
           path   == SubSeq(sounds, 1, index + 1)
           a      == at(tree, path)
       IN /\ index >= 1
          /\ a.ok
          /\ path \notin a.t.visited
          /\ checkPart(traits, path)
          /\ tree' = [a.t EXCEPT !.visited = @ \cup {path}]
          /\ LET msg == aid(panicMsg) IN
             IF msg = ""
               THEN /\ result' = join(path)
                    /\ out' = Bump(out, join(path))
                    /\ mode' = "idle"
               ELSE /\ result' = <<msg>>
                    /\ out' = out
                    /\ mode' = "panic"
  /\ stack' = <<>>
  /\ UNCHANGED <<other, input, sample, traits, eos, acc, call>>

\* the visitor returns: the subtree is used up, forget the key
IterDone ==
  /\ mode = "walk" /\ Top.pc = "iter" /\ Top.perm = {}
  /\ tree' = DeleteKey(tree, Top.sounds, Top.cur)
  /\ stack' = SetTop([Top EXCEPT !.pc = "loop", !.cur = <<>>])
  /\ UNCHANGED <<other, input, sample, traits, mode, result, out, eos, acc, call>>

\* the walk from the root returns without an emission: gen() returns ""
Finish ==
  /\ mode = "walk" /\ Len(stack) = 1 /\ Top.pc = "loop" /\ Top.todo = {}
  /\ stack' = <<>>
  /\ mode' = "idle"
  /\ result' = <<>>
  /\ eos' = eos + 1
  /\ UNCHANGED <<other, input, sample, traits, tree, out, acc, call>>

(****************************** virtual tree *******************************)

\* the paths of the virtual tree of T below path: a child per candidate of
\* sprout that is a valid partial word
RECURSIVE VirtualBelow(_, _)
VirtualBelow(T, path) ==
  LET kids == {Append(path, b) : b \in sprout(T.PairSet, path)}
      ok   == {p \in kids : validPart(T, p)}
  IN ok \cup UNION {VirtualBelow(T, p) : p \in ok}

VirtualTree(T) == VirtualBelow(T, <<>>)

(******************************** samples **********************************)

\* characters of the sample words
Chars == {"a", "s", "h"}

\* the samples of words of two or more characters with at most n characters
\* in all
RECURSIVE SamplesUpTo(_)
SamplesUpTo(n) ==
  {<<>>} \cup UNION {{<<w>> \o rest : w \in [1 .. k -> Chars],
                                      rest \in SamplesUpTo(n - k)} : k \in 2 .. n}

Samples == SamplesUpTo(MaxChars) \ {<<>>}

\* a fresh generator of the traits of a sample whose virtual tree has at
\* most n nodes
InitGenerator(n) ==
  /\ \E words \in Samples :
       /\ NewTraits(words).err = ""
       /\ Cardinality(VirtualTree(NewTraits(words).traits)) <= n
       /\ traits = NewTraits(words).traits
  /\ sample = <<>>
  /\ tree = EmptyTree
  /\ stack = <<>>
  /\ mode = "idle"
  /\ result = <<>>
  /\ out = <<>>
  /\ eos = 0
  /\ acc = {}
  /\ call = NoCall
  /\ other = <<>>
  /\ input = <<>>

\* Generator() of a nil *Traits: the state holds the nil pointer
InitNil ==
  /\ traits = NilTraits
  /\ sample = <<>>
  /\ tree = EmptyTree
  /\ stack = <<>>
  /\ mode = "idle"
  /\ result = <<>>
  /\ out = <<>>
  /\ eos = 0
  /\ acc = {}
  /\ call = NoCall
  /\ other = <<>>
  /\ input = <<>>

Init == InitGenerator(MaxNodes) \/ InitNil

FairInit == InitGenerator(MaxFairNodes)

Next ==
  \/ Call
  \/ WalkReject
  \/ WalkDescend
  \/ WalkReturn
  \/ IterSkip
  \/ IterVisit
  \/ IterEmit
  \/ IterDone
  \/ Finish

Spec == Init /\ [][Next]_vars

(***************************** Words (public) ******************************)

GoblinSmoke == << <<"g","o","b","l","i","n">>, <<"s","m","o","k","e">> >>

\* Words(words): the traits of the sample, then Traits.Words; an error of
\* the extraction is returned instead of a set
Words ==
  /\ mode = "idle"
  /\ LET r == examineMany(sample) IN
     /\ traits' = r.traits
     /\ result' = IF r.err # "" THEN {<<"error", r.err>>} ELSE Traits_Words(r.traits)
  /\ mode' = "done"
  /\ UNCHANGED <<other, input, sample, tree, stack, out, eos, acc, call>>

WordsInit ==
  /\ sample \in Samples \cup {GoblinSmoke}
  /\ traits = ZeroTraits
  /\ tree = EmptyTree
  /\ stack = <<>>
  /\ mode = "idle"
  /\ result = <<>>
  /\ out = <<>>
  /\ eos = 0
  /\ acc = {}
  /\ call = NoCall
  /\ other = <<>>
  /\ input = <<>>

WordsNext == Words

WordsSpec == WordsInit /\ [][WordsNext]_vars

(*********************** Traits.Examine, NewTraits *************************)

\* characters of the words given to Examine; "A" is in no table of sounds
ExamChars == {"a", "s", "A"}

Word32 == [i \in 1 .. 32 |-> "a"]

Word33 == [i \in 1 .. 33 |-> "a"]

\* the samples, empty and one-character words included, of size up to n
RECURSIVE ExamSamplesUpTo(_)
ExamSamplesUpTo(n) ==
  {<<>>} \cup UNION {{<<w>> \o rest : w \in [1 .. k -> ExamChars],
                                      rest \in ExamSamplesUpTo(n - k - 1)} :
                      k \in 0 .. n - 1}

ExamSamples ==
  ExamSamplesUpTo(MaxExam)
    \cup {<<Word32>>, <<Word33>>, <<Word32, Word33>>, <<Word33, <<"a", "s">> >>}

\* the Traits a caller may hand to Examine: new(Traits), and one with sets
\* of known sounds and vowels of its own
CustomTraits ==
  [ZeroTraits EXCEPT !.KnownSounds = Mono({"a"}) \cup {<<"a", "s">>},
                     !.KnownVowels = {<<"a", "s">>}]

\* known sounds of its own only: s, h and the other default sounds are unknown
SoundsTraits ==
  [ZeroTraits EXCEPT !.KnownSounds = Mono({"a"}) \cup {<<"a", "s">>}]

\* known vowels of its own only: s is a vowel and a is none
VowelsTraits == [ZeroTraits EXCEPT !.KnownVowels = {<<"s">>}]

Receivers == {ZeroTraits, CustomTraits, SoundsTraits, VowelsTraits}

\* the sequences of 1 .. n sounds out of the set S
CheckPaths(S, n) == UNION {[1 .. k -> S] : k \in 1 .. n}

\* NewTraits(sample) is called: traits := new(Traits), then traits.Examine
NewTraitsCall ==
  /\ mode = "idle"
  /\ traits' = ZeroTraits
  /\ call' = [op |-> "NewTraits", num |-> Len(sample), left |-> Len(sample)]
  /\ mode' = "examine"
  /\ UNCHANGED <<other, input, sample, tree, stack, result, out, eos, acc>>

\* traits.Examine(sample) is called by the owner of traits
ExamineCall ==
  /\ mode = "idle"
  /\ call' = [op |-> "Examine", num |-> Len(sample), left |-> Len(sample)]
  /\ mode' = "examine"
  /\ UNCHANGED <<other, input, sample, traits, tree, stack, result, out, eos, acc>>

\* variant: after an error the loop goes on to the next word
ExamineWordOn ==
  /\ mode = "examine" /\ call.left > 0
  /\ LET r == examineWord(traits, sample[call.num - call.left + 1]) IN
     /\ call' = [call EXCEPT !.left = @ - 1]
     /\ traits' = r.traits
     /\ IF r.err # "" /\ call.left = 1
          THEN result' = [err |-> r.err, traits |-> <<>>] /\ mode' = "done"
          ELSE UNCHANGED <<result, mode>>
  /\ UNCHANGED <<other, input, sample, tree, stack, out, eos, acc>>

\* one turn of the loop of Examine: examineWord merges the next word into
\* the receiver, or fails, and then Examine (and NewTraits, with a nil
\* pointer) returns the error
ExamineWord ==
  /\ mode = "examine" /\ call.left > 0
  /\ LET r == examineWord(traits, sample[call.num - call.left + 1]) IN
     /\ call' = [call EXCEPT !.left = @ - 1]
     /\ traits' = r.traits
     /\ IF r.err # ""
          THEN result' = [err |-> r.err, traits |-> <<>>] /\ mode' = "done"
          ELSE UNCHANGED <<result, mode>>
  /\ UNCHANGED <<other, input, sample, tree, stack, out, eos, acc>>

\* the loop is over: Examine returns nil, NewTraits the pointer to the traits
ExamineReturn ==
  /\ mode = "examine" /\ call.left = 0
  /\ result' = [err |-> "",
                traits |-> IF call.op = "NewTraits" THEN <<traits>> ELSE <<>>]
  /\ mode' = "done"
  /\ UNCHANGED <<other, input, sample, traits, tree, stack, out, eos, acc, call>>

\* after a successful extraction the validators of the traits are applied
\* to a sequence of sounds of the traits, as the generators do
Validate ==
  /\ mode = "done" /\ call.op \in {"Examine", "NewTraits"} /\ result.err = ""
  /\ input' \in CheckPaths(traits.SoundSet, MaxCheck)
  /\ result' = [err |-> "", traits |-> result.traits,
                part |-> validPart(traits, input'),
                complete |-> checkPart(traits, input')]
  /\ mode' = "checked"
  /\ UNCHANGED <<other, sample, traits, tree, stack, out, eos, acc, call>>

ExamineInit ==
  /\ sample \in ExamSamples
  /\ traits \in Receivers
  /\ tree = EmptyTree
  /\ stack = <<>>
  /\ mode = "idle"
  /\ result = <<>>
  /\ out = <<>>
  /\ eos = 0
  /\ acc = {}
  /\ call = NoCall
  /\ other = <<>>
  /\ input = <<>>

ExamineNext ==
  \/ NewTraitsCall
  \/ ExamineCall
  \/ ExamineWord
  \/ ExamineReturn
  \/ Validate

ExamineSpec == ExamineInit /\ [][ExamineNext]_vars

(************************* validPart on its own ****************************)

PathSounds == Mono({"a", "s"})

RECURSIVE PathsUpTo(_)
PathsUpTo(n) ==
  IF n = 0 THEN {<<>>}
  ELSE LET shorter == PathsUpTo(n - 1) IN
       shorter \cup {Append(p, g) : p \in {q \in shorter : Len(q) = n - 1},
                                    g \in PathSounds}

\* Traits.validPart(input...) on the traits of the sample
ValidPart ==
  /\ mode = "idle"
  /\ result' = validPart(traits, input)
  /\ mode' = "done"
  /\ UNCHANGED <<other, input, sample, traits, tree, stack, out, eos, acc, call>>

\* the traits of a one-word sample and any sequence of sounds
PartInit ==
  /\ sample \in {words \in Samples : Len(words) = 1 /\ NewTraits(words).err = ""}
  /\ traits = NewTraits(sample).traits
  /\ other = <<>>
  /\ input \in PathsUpTo(MaxPath)
  /\ tree = EmptyTree
  /\ stack = <<>>
  /\ mode = "idle"
  /\ result = <<>>
  /\ out = <<>>
  /\ eos = 0
  /\ acc = {}
  /\ call = NoCall

PartNext == ValidPart

PartSpec == PartInit /\ [][PartNext]_vars

(************************* getSounds on its own ****************************)

\* glyphs of the sets of known sounds given to getSounds
Glyphs == Mono(Chars) \cup {<<"a", "s">>, <<"s", "h">>}

KnownSets == {knownSounds} \cup SUBSET Glyphs

\* the word chch with the known sounds ch, c, h
Chch == [word |-> <<"c", "h", "c", "h">>,
         known |-> {<<"c", "h">>, <<"c">>, <<"h">>}]

\* getSounds(input.word, input.known)
GetSounds ==
  /\ mode = "idle"
  /\ result' = getSounds(input.word, input.known)
  /\ mode' = "done"
  /\ UNCHANGED <<other, input, sample, traits, tree, stack, out, eos, acc, call>>

TokenInit ==
  /\ other = <<>>
  /\ input \in [word : UNION {[1 .. k -> Chars] : k \in 0 .. MaxChars},
                 known : KnownSets] \cup {Chch}
  /\ sample = <<>>
  /\ traits = ZeroTraits
  /\ tree = EmptyTree
  /\ stack = <<>>
  /\ mode = "idle"
  /\ result = <<>>
  /\ out = <<>>
  /\ eos = 0
  /\ acc = {}
  /\ call = NoCall

TokenNext == GetSounds

TokenSpec == TokenInit /\ [][TokenNext]_vars

(********************************* State ***********************************)

(* The tree of a State, flat: made are the paths whose node exists, blocked *)
(* the paths p.s such that the node at p has s in its blocked set, used the *)
(* paths whose node has used = true.  Nothing is ever removed.              *)

EmptyStateTree == [made |-> {}, blocked |-> {}, used |-> {}]

Prefixes(path) == {SubSeq(path, 1, k) : k \in 0 .. Len(path)}

\* tree.at of the State's tree: creates the missing nodes and child maps
atState(t, path) == [t EXCEPT !.made = @ \cup Prefixes(path)]

\* len(child.nodes) == 0
NoChildren(t, path) == ~ \E q \in t.made : Len(q) = Len(path) + 1 /\ IsPrefix(path, q)

randFirsts(pairs) == {pair[1] : pair \in pairs}

randSeconds(pairs, first) == {pair[2] : pair \in {q \in pairs : q[1] = first}}

BumpAll(b, S) == [x \in DOMAIN b \cup S |->
                    IF x \in DOMAIN b THEN (IF x \in S THEN 2 ELSE b[x]) ELSE 1]

\* entry of State.walk without sounds
StateWalkStart(t) ==
  /\ tree' = [t EXCEPT !.made = @ \cup {<<>>}]
  /\ stack' = <<Frame(<<>>, randFirsts(traits.PairSet))>>
  /\ mode' = "walk"

\* State.Words() is called
StateWords ==
  /\ mode = "idle" /\ eos < MaxEos
  /\ call' = [op |-> "Words", num |-> 0, left |-> 0]
  /\ acc' = {}
  /\ StateWalkStart(tree)
  /\ UNCHANGED <<other, input, sample, traits, result, out, eos>>

\* State.WordsN(num) is called
StateWordsN ==
  /\ mode = "idle" /\ eos < MaxEos
  /\ \E num \in 0 .. MaxNum : call' = [op |-> "WordsN", num |-> num, left |-> num]
  /\ acc' = {}
  /\ mode' = "call"
  /\ UNCHANGED <<other, input, sample, traits, tree, stack, result, out, eos>>

\* the loop of WordsN starts a trip
StateTrip ==
  /\ mode = "call" /\ call.left > 0
  /\ call' = [call EXCEPT !.left = @ - 1]
  /\ StateWalkStart(tree)
  /\ UNCHANGED <<other, input, sample, traits, result, out, eos, acc>>

\* the loop of WordsN is over: WordsN returns
StateWordsNReturn ==
  /\ mode = "call" /\ call.left = 0
  /\ result' = acc
  /\ out' = BumpAll(out, acc)
  /\ mode' = "idle"
  /\ UNCHANGED <<other, input, sample, traits, tree, stack, eos, acc, call>>

\* root loop: the first sound is blocked
StateRootSkip ==
  /\ mode = "walk" /\ Len(stack) = 1 /\ Top.pc = "loop"
  /\ \E first \in Top.todo :
       /\ <<first>> \in tree.blocked
       /\ stack' = SetTop([Top EXCEPT !.todo = @ \ {first}])
  /\ UNCHANGED <<other, input, sample, traits, tree, mode, result, out, eos, acc, call>>

\* root loop: this.walk(iterator, first)
StateRootDescend ==
  /\ mode = "walk" /\ Len(stack) = 1 /\ Top.pc = "loop"
  /\ \E first \in Top.todo :
       /\ <<first>> \notin tree.blocked
       /\ tree' = atState(tree, <<first>>)
       /\ stack' = Append(SetTop([Top EXCEPT !.todo = @ \ {first}, !.cur = first,
                                             !.pc = "called"]),
                          Frame(<<first>>, randSeconds(traits.PairSet, first)))
  /\ UNCHANGED <<other, input, sample, traits, mode, result, out, eos, acc, call>>

\* loop below the root: the second sound is blocked
StateSkip ==
  /\ mode = "walk" /\ Len(stack) > 1 /\ Top.pc = "loop"
  /\ \E second \in Top.todo :
       /\ Append(Top.sounds, second) \in tree.blocked
       /\ stack' = SetTop([Top EXCEPT !.todo = @ \ {second}])
  /\ UNCHANGED <<other, input, sample, traits, tree, mode, result, out, eos, acc, call>>

\* loop below the root: no child yet and the path is not a valid partial
\* word: block the sound
StateReject ==
  /\ mode = "walk" /\ Len(stack) > 1 /\ Top.pc = "loop"
  /\ \E second \in Top.todo :
       LET path == Append(Top.sounds, second) IN
       /\ path \notin tree.blocked
       /\ path \notin tree.made
       /\ ~validPart1(traits, path)
       /\ tree' = [tree EXCEPT !.blocked = @ \cup {path}]
       /\ stack' = SetTop([Top EXCEPT !.todo = @ \ {second}])
  /\ UNCHANGED <<other, input, sample, traits, mode, result, out, eos, acc, call>>

\* loop below the root: register the child and walk it
StateDescend ==
  /\ mode = "walk" /\ Len(stack) > 1 /\ Top.pc = "loop"
  /\ \E second \in Top.todo :
       LET path == Append(Top.sounds, second) IN
       /\ path \notin tree.blocked
       /\ path \in tree.made \/ validPart1(traits, path)
       /\ tree' = atState(tree, path)
       /\ stack' = Append(SetTop([Top EXCEPT !.todo = @ \ {second}, !.cur = second,
                                             !.pc = "called"]),
                          Frame(path, randSeconds(traits.PairSet, second)))
  /\ UNCHANGED <<other, input, sample, traits, mode, result, out, eos, acc, call>>

\* a walk below the root returns: into the root loop, which blocks the first
\* sound, or into a loop below, which tests whether the child is a leaf
StateReturn ==
  /\ mode = "walk" /\ Len(stack) > 1 /\ Top.pc = "loop" /\ Top.todo = {}
  /\ LET caller == stack[Len(stack) - 1]
         path   == Append(caller.sounds, caller.cur)
         rest   == SubSeq(stack, 1, Len(stack) - 2)
     IN IF Len(stack) = 2
          THEN /\ tree' = [tree EXCEPT !.blocked = @ \cup {path}]
               /\ stack' = Append(rest, [caller EXCEPT !.pc = "loop", !.cur = <<>>])
          ELSE IF NoChildren(tree, path)
            THEN /\ tree' = tree
                 /\ stack' = Append(rest, [caller EXCEPT !.pc = "iter",
                                                         !.perm = 0 .. Len(path)])
            ELSE /\ tree' = [tree EXCEPT !.blocked = @ \cup {path}]
                 /\ stack' = Append(rest, [caller EXCEPT !.pc = "loop", !.cur = <<>>])
  /\ UNCHANGED <<other, input, sample, traits, mode, result, out, eos, acc, call>>

\* subpaths of a leaf: an index below 2
StateIterSkip ==
  /\ mode = "walk" /\ Top.pc = "iter"
  /\ \E index \in Top.perm :
       /\ index < 2
       /\ stack' = SetTop([Top EXCEPT !.perm = @ \ {index}])
  /\ UNCHANGED <<other, input, sample, traits, tree, mode, result, out, eos, acc, call>>

\* variant: a subpath may be passed over whatever its state
StateIterPassAny ==
  /\ mode = "walk" /\ Top.pc = "iter"
  /\ \E index \in Top.perm :
       /\ index >= 2
       /\ stack' = SetTop([Top EXCEPT !.perm = @ \ {index}])
  /\ UNCHANGED <<other, input, sample, traits, tree, mode, result, out, eos, acc, call>>

\* subpaths of a leaf: the subpath is used already or is no complete word
StateIterPass ==
  /\ mode = "walk" /\ Top.pc = "iter"
  /\ \E index \in Top.perm :
       LET subpath == SubSeq(Append(Top.sounds, Top.cur), 1, index) IN
       /\ index >= 2
       /\ subpath \in tree.used \/ ~checkPart1(traits, subpath)
       /\ stack' = SetTop([Top EXCEPT !.perm = @ \ {index}])
  /\ UNCHANGED <<other, input, sample, traits, tree, mode, result, out, eos, acc, call>>

\* variant: the subpath is handed to the iterator whether used or not
StateIterEmitUsed ==
  /\ mode = "walk" /\ Top.pc = "iter"
  /\ \E index \in Top.perm :
       LET subpath == SubSeq(Append(Top.sounds, Top.cur), 1, index) IN
       /\ index >= 2
       /\ checkPart1(traits, subpath)
       /\ tree' = [tree EXCEPT !.used = @ \cup {subpath}]
       /\ acc' = acc \cup {join(subpath)}
       /\ IF call.op = "WordsN"
            THEN stack' = <<>> /\ mode' = "call"
            ELSE stack' = SetTop([Top EXCEPT !.perm = @ \ {index}]) /\ mode' = mode
  /\ UNCHANGED <<other, input, sample, traits, result, out, eos, call>>

\* subpaths of a leaf: mark the subpath used and hand it to the iterator;
\* the iterator of trip interrupts the walk
StateIterEmit ==
  /\ mode = "walk" /\ Top.pc = "iter"
  /\ \E index \in Top.perm :
       LET subpath == SubSeq(Append(Top.sounds, Top.cur), 1, index) IN
       /\ index >= 2
       /\ subpath \notin tree.used
       /\ checkPart1(traits, subpath)
       /\ tree' = [tree EXCEPT !.used = @ \cup {subpath}]
       /\ acc' = acc \cup {join(subpath)}
       /\ IF call.op = "WordsN"
            THEN stack' = <<>> /\ mode' = "call"
            ELSE stack' = SetTop([Top EXCEPT !.perm = @ \ {index}]) /\ mode' = mode
  /\ UNCHANGED <<other, input, sample, traits, result, out, eos, call>>

\* the subpaths of the leaf are done: block the sound
StateIterDone ==
  /\ mode = "walk" /\ Top.pc = "iter" /\ Top.perm = {}
  /\ tree' = [tree EXCEPT !.blocked = @ \cup {Append(Top.sounds, Top.cur)}]
  /\ stack' = SetTop([Top EXCEPT !.pc = "loop", !.cur = <<>>])
  /\ UNCHANGED <<other, input, sample, traits, mode, result, out, eos, acc, call>>

\* the walk from the root returns: Words returns its set, a trip of WordsN
\* ends without a word
StateFinish ==
  /\ mode = "walk" /\ Len(stack) = 1 /\ Top.pc = "loop" /\ Top.todo = {}
  /\ stack' = <<>>
  /\ IF call.op = "Words"
       THEN /\ result' = acc
            /\ out' = BumpAll(out, acc)
            /\ eos' = eos + 1
            /\ mode' = "idle"
       ELSE /\ mode' = "call"
            /\ UNCHANGED <<result, out, eos>>
  /\ UNCHANGED <<other, input, sample, traits, tree, acc, call>>

\* NewState(words) of a sample whose virtual tree has at most MaxStateNodes
\* nodes
StateInit ==
  /\ \E words \in Samples :
       /\ examineMany(words).err = ""
       /\ Cardinality(VirtualTree(examineMany(words).traits)) <= MaxStateNodes
       /\ traits = examineMany(words).traits
  /\ sample = <<>>
  /\ tree = EmptyStateTree
  /\ stack = <<>>
  /\ mode = "idle"
  /\ result = {}
  /\ out = <<>>
  /\ eos = 0
  /\ acc = {}
  /\ call = NoCall
  /\ other = <<>>
  /\ input = <<>>

StateNext ==
  \/ StateWords
  \/ StateWordsN
  \/ StateTrip
  \/ StateWordsNReturn
  \/ StateRootSkip
  \/ StateRootDescend
  \/ StateSkip
  \/ StateReject
  \/ StateDescend
  \/ StateReturn
  \/ StateIterSkip
  \/ StateIterPass
  \/ StateIterEmit
  \/ StateIterDone
  \/ StateFinish

StateSpec == StateInit /\ [][StateNext]_vars

FairSpec == FairInit /\ [][Next]_vars /\ WF_vars(Next)

(******************* Traits.Words, one pair at a time **********************)

(* An activation of Traits.walk: sounds is its argument, todo the pairs    *)
(* the range over PairSet has not reached yet, firsts the set of first     *)
(* sounds of the root activation.  The order of a range over a map is      *)
(* unspecified: the next pair is any pair of todo.                         *)

WalkFrame(sounds, todo) == [sounds |-> sounds, todo |-> todo, firsts |-> {}]

\* traits.Words() is called: words is nil, walk starts from the root
WordsCall ==
  /\ mode = "idle"
  /\ call.num < MaxWalks
  /\ acc' = {}
  /\ stack' = <<WalkFrame(<<>>, traits.PairSet)>>
  /\ mode' = "walk"
  /\ UNCHANGED <<other, input, sample, traits, tree, result, out, eos, call>>

\* root, the first sound of the pair was seen in another pair: continue
WalkFirstSeen ==
  /\ mode = "walk" /\ Len(stack) = 1
  /\ \E pair \in Top.todo :
       /\ pair[1] \in Top.firsts
       /\ stack' = SetTop([Top EXCEPT !.todo = @ \ {pair}])
  /\ UNCHANGED <<other, input, sample, traits, tree, mode, result, out, eos, acc, call>>

\* root, a new first sound: firsts.Add(first), this.walk(iterator, first)
WalkFirst ==
  /\ mode = "walk" /\ Len(stack) = 1
  /\ \E pair \in Top.todo :
       /\ pair[1] \notin Top.firsts
       /\ stack' = Append(SetTop([Top EXCEPT !.todo = @ \ {pair},
                                             !.firsts = @ \cup {pair[1]}]),
                          WalkFrame(<<pair[1]>>, traits.PairSet))
  /\ UNCHANGED <<other, input, sample, traits, tree, mode, result, out, eos, acc, call>>

\* variant: a pair that does not begin with the last sound ends the loop
WalkOtherBreak ==
  /\ mode = "walk" /\ Len(stack) > 1
  /\ \E pair \in Top.todo :
       /\ pair[1] # Top.sounds[Len(Top.sounds)]
       /\ stack' = SetTop([Top EXCEPT !.todo = {}])
  /\ UNCHANGED <<other, input, sample, traits, tree, mode, result, out, eos, acc, call>>

\* below the root, the pair does not begin with the last sound: continue
WalkOther ==
  /\ mode = "walk" /\ Len(stack) > 1
  /\ \E pair \in Top.todo :
       /\ pair[1] # Top.sounds[Len(Top.sounds)]
       /\ stack' = SetTop([Top EXCEPT !.todo = @ \ {pair}])
  /\ UNCHANGED <<other, input, sample, traits, tree, mode, result, out, eos, acc, call>>

\* below the root, the continued path is no valid partial word: continue
WalkInvalid ==
  /\ mode = "walk" /\ Len(stack) > 1
  /\ \E pair \in Top.todo :
       /\ pair[1] = Top.sounds[Len(Top.sounds)]
       /\ ~validPart1(traits, Append(Top.sounds, pair[2]))
       /\ stack' = SetTop([Top EXCEPT !.todo = @ \ {pair}])
  /\ UNCHANGED <<other, input, sample, traits, tree, mode, result, out, eos, acc, call>>

\* variant: the iterator is called on every valid partial word
WalkChildAny ==
  /\ mode = "walk" /\ Len(stack) > 1
  /\ \E pair \in Top.todo :
       LET path == Append(Top.sounds, pair[2]) IN
       /\ pair[1] = Top.sounds[Len(Top.sounds)]
       /\ validPart1(traits, path)
       /\ acc' = acc \cup {join(path)}
       /\ stack' = Append(SetTop([Top EXCEPT !.todo = @ \ {pair}]),
                          WalkFrame(path, traits.PairSet))
  /\ UNCHANGED <<other, input, sample, traits, tree, mode, result, out, eos, call>>

\* below the root, the continued path is a valid partial word: the iterator
\* of Words adds it when it is a complete word, then this.walk(iterator, path)
WalkChild ==
  /\ mode = "walk" /\ Len(stack) > 1
  /\ \E pair \in Top.todo :
       LET path == Append(Top.sounds, pair[2]) IN
       /\ pair[1] = Top.sounds[Len(Top.sounds)]
       /\ validPart1(traits, path)
       /\ acc' = IF checkPart1(traits, path) THEN acc \cup {join(path)} ELSE acc
       /\ stack' = Append(SetTop([Top EXCEPT !.todo = @ \ {pair}]),
                          WalkFrame(path, traits.PairSet))
  /\ UNCHANGED <<other, input, sample, traits, tree, mode, result, out, eos, call>>

\* the range is over below the root: the activation returns to its caller
WalkBack ==
  /\ mode = "walk" /\ Len(stack) > 1
  /\ Top.todo = {}
  /\ stack' = SubSeq(stack, 1, Len(stack) - 1)
  /\ UNCHANGED <<other, input, sample, traits, tree, mode, result, out, eos, acc, call>>

\* the range of the root is over: Words returns the set of the words added
WordsReturn ==
  /\ mode = "walk" /\ Len(stack) = 1
  /\ Top.todo = {}
  /\ stack' = <<>>
  /\ result' = acc
  /\ mode' = "idle"
  /\ call' = [op |-> "Words", num |-> call.num + 1, left |-> 0]
  /\ UNCHANGED <<other, input, sample, traits, tree, out, eos, acc>>

\* traits of a sample, by NewTraits of perf.go, with a small virtual tree
WalkInit ==
  /\ \E words \in Samples :
       /\ examineMany(words).err = ""
       /\ Cardinality(VirtualTree(examineMany(words).traits)) <= MaxWalkNodes
       /\ traits = examineMany(words).traits
  /\ sample = <<>>
  /\ tree = EmptyTree
  /\ stack = <<>>
  /\ mode = "idle"
  /\ result = {}
  /\ out = <<>>
  /\ eos = 0
  /\ acc = {}
  /\ call = NoCall
  /\ other = <<>>
  /\ input = <<>>

WalkNext ==
  \/ WordsCall
  \/ WalkFirstSeen
  \/ WalkFirst
  \/ WalkOther
  \/ WalkInvalid
  \/ WalkChild
  \/ WalkBack
  \/ WordsReturn

WalkSpec == WalkInit /\ [][WalkNext]_vars

(************ the random choices resolved towards a first word *************)

\* the paths of the virtual tree of T that are complete words
WordPaths(T) == {p \in VirtualTree(T) : Len(p) >= 2 /\ checkPart(T, p)}

\* the draws of permutate and of shuffle so far can still make the word of
\* the path input the first word returned: the walk is on the way to the
\* node of input or below it, and no other word has come first
OnCourse ==
  /\ out = <<>> =>
       \A i \in DOMAIN stack :
         LET q == IF stack[i].cur = <<>> THEN stack[i].sounds
                  ELSE Append(stack[i].sounds, stack[i].cur)
         IN IsPrefix(q, input) \/ IsPrefix(input, q)
  /\ Cardinality(DOMAIN out) = 1 => DOMAIN out = {join(input)}

\* a fresh generator, and the path of a word of its traits to aim at
AimInit ==
  /\ \E words \in Samples :
       /\ NewTraits(words).err = ""
       /\ Cardinality(VirtualTree(NewTraits(words).traits)) <= MaxAimNodes
       /\ traits = NewTraits(words).traits
  /\ input \in WordPaths(traits)
  /\ sample = <<>>
  /\ tree = EmptyTree
  /\ stack = <<>>
  /\ mode = "idle"
  /\ result = <<>>
  /\ out = <<>>
  /\ eos = 0
  /\ acc = {}
  /\ call = NoCall
  /\ other = <<>>

\* the steps of the generator under draws that stay on course
AimNext ==
  \/ Call /\ OnCourse'
  \/ WalkReject /\ OnCourse'
  \/ WalkDescend /\ OnCourse'
  \/ WalkReturn /\ OnCourse'
  \/ IterSkip /\ OnCourse'
  \/ IterVisit /\ OnCourse'
  \/ IterEmit /\ OnCourse'
  \/ IterDone /\ OnCourse'
  \/ Finish /\ OnCourse'

AimSpec == AimInit /\ [][AimNext]_vars /\ WF_vars(AimNext)

(********************* two generators of one Traits ************************)

\* the state of a generator: its sidecar tree, the call in progress, and the
\* history of what it has returned
Generator(t, st, m, r, o, e) ==
  [tree |-> t, stack |-> st, mode |-> m, result |-> r, out |-> o, eos |-> e]

\* variant: the two generators share one sidecar tree
SwitchShared ==
  /\ other # <<>>
  /\ mode = "idle"
  /\ other' = Generator(tree, stack, mode, result, out, eos)
  /\ tree' = tree
  /\ stack' = other.stack
  /\ mode' = other.mode
  /\ result' = other.result
  /\ out' = other.out
  /\ eos' = other.eos
  /\ UNCHANGED <<input, sample, traits, acc, call>>

\* between two calls the caller turns to the other generator: the one it
\* pulled so far is set aside as it is
Switch ==
  /\ other # <<>>
  /\ mode = "idle"
  /\ other' = Generator(tree, stack, mode, result, out, eos)
  /\ tree' = other.tree
  /\ stack' = other.stack
  /\ mode' = other.mode
  /\ result' = other.result
  /\ out' = other.out
  /\ eos' = other.eos
  /\ UNCHANGED <<input, sample, traits, acc, call>>

\* traits.Generator() twice: two states with their own nil tree, one Traits
PairInit ==
  /\ \E words \in Samples :
       /\ NewTraits(words).err = ""
       /\ Cardinality(VirtualTree(NewTraits(words).traits)) <= MaxPairNodes
       /\ traits = NewTraits(words).traits
  /\ sample = <<>>
  /\ tree = EmptyTree
  /\ stack = <<>>
  /\ mode = "idle"
  /\ result = <<>>
  /\ out = <<>>
  /\ eos = 0
  /\ acc = {}
  /\ call = NoCall
  /\ input = <<>>
  /\ other = Generator(EmptyTree, <<>>, "idle", <<>>, <<>>, 0)

PairNext ==
  \/ Call
  \/ WalkReject
  \/ WalkDescend
  \/ WalkReturn
  \/ IterSkip
  \/ IterVisit
  \/ IterEmit
  \/ IterDone
  \/ Finish
  \/ Switch

PairSpec == PairInit /\ [][PairNext]_vars

(************************* properties: generator ***************************)

Returned == DOMAIN out

\* the glyphs of a returned word, as the tests re-tokenize it
SoundsOf(w) == getSounds(w, Traits_knownSounds(traits)).sounds

\* the walk never writes into a nil child map
NoPanic == mode # "panic"

\* C1: over the whole lifetime of a generator no word is returned twice.
NoRepeats == \A w \in Returned : out[w] <= 1

NoRepeatsWitness == mode = "idle" /\ Cardinality(Returned) >= 2

\* C2: a generator pulled until end-of-stream has returned exactly the set
\* of words of the pure walker on the same traits.
ExhaustedEqualsWalker == eos > 0 => Returned = Traits_Words(traits)

ExhaustedEqualsWalkerWitness == eos > 0 /\ Cardinality(Returned) >= 3

\* C3: every returned word has its glyph count and its vowel count inside
\* the traits' bounds and its vowel and consonant runs below the caps.
WordsMatchTraits ==
  \A w \in Returned :
    LET sounds == SoundsOf(w)
        vowels == Traits_knownVowels(traits)
        nVow   == countIntersections(sounds, vowels)
    IN /\ traits.MinNSounds <= Len(sounds) /\ Len(sounds) <= traits.MaxNSounds
       /\ traits.MinNVowels <= nVow /\ nVow <= traits.MaxNVowels
       /\ maxConsequtiveVowels(sounds, vowels) <= traits.MaxConseqVow
       /\ maxConsequtiveConsonants(sounds, vowels) <= traits.MaxConseqCons

\* a word has been returned out of a sidecar that holds a path longer than
\* the longest word allowed
WordsMatchTraitsWitness ==
  /\ Returned # {}
  /\ \E p \in tree.made : Len(p) > traits.MaxNSounds

\* C4: every returned word, and every path the pure walker visits, is made
\* of glyphs of SoundSet and of adjacent pairs of PairSet, while validPairs
\* does not test the membership of the pairs.
WordsUsePairs ==
  /\ \A w \in Returned :
       /\ SeqToSet(SoundsOf(w)) \subseteq traits.SoundSet
       /\ getPairs(SoundsOf(w)) \subseteq traits.PairSet
  /\ tree = EmptyTree =>
       \A p \in Traits_walk(traits, <<>>) :
         /\ SeqToSet(p) \subseteq traits.SoundSet
         /\ getPairs(p) \subseteq traits.PairSet

\* a word has been returned although validPairs accepts a pair of sounds
\* that is not in PairSet
WordsUsePairsWitness ==
  /\ Returned # {}
  /\ \E a \in traits.SoundSet, b \in traits.SoundSet :
       <<a, b>> \notin traits.PairSet /\ validPairs(traits, <<a, b>>)

\* C6: once a call has returned end-of-stream, every later call returns
\* end-of-stream and returns no word.
EosIsFinal ==
  [][eos > 0 => (out' = out /\ (mode' = "idle" => result' = <<>>))]_vars

EosIsFinalWitness == eos = 2 /\ mode = "idle" /\ Returned # {}

\* C7: every call terminates, and a generator that is pulled again and
\* again eventually returns end-of-stream.
Terminates == ((mode = "walk") ~> (mode = "idle")) /\ <>(eos > 0)

TerminatesWitness == eos = 1 /\ mode = "idle" /\ Cardinality(Returned) >= 2

\* C9: every node the generator materializes has at most MaxNSounds sounds:
\* the depth of the virtual tree is bounded by MaxNSounds.
DepthBounded == \A p \in tree.made : Len(p) <= traits.MaxNSounds

(************************* properties: Words *******************************)

\* C10: Words of the sample goblin, smoke is the set of these twelve words.
GoblinSmokeWords ==
  (mode = "done" /\ sample = GoblinSmoke) =>
    result = { <<"o","b","l","i">>, <<"o","b","l","i","n">>, <<"o","k","e">>,
               <<"g","o","b","l","i">>, <<"g","o","b","l","i","n">>,
               <<"g","o","k","e">>,
               <<"m","o","b","l","i">>, <<"m","o","b","l","i","n">>,
               <<"m","o","k","e">>,
               <<"s","m","o","b","l","i">>, <<"s","m","o","b","l","i","n">>,
               <<"s","m","o","k","e">> }

\* C5: a trip of State.WordsN ends without a word only when every word of
\* the complete set has been returned, and WordsN(num) returns exactly
\* min(num, number of words not yet returned) words, all of them words of the
\* complete set that were not returned before (on a fresh State: min(num,
\* size of the complete set) words of the complete set).
WordsNCount ==
  [][/\ (mode = "walk" /\ mode' = "call" /\ acc' = acc)
          => Traits_Words(traits) \subseteq Returned \cup acc
     /\ (mode = "call" /\ mode' = "idle")
          => /\ result' \subseteq Traits_Words(traits) \ Returned
             /\ Cardinality(result') =
                  Min(call.num, Cardinality(Traits_Words(traits) \ Returned))]_vars

WordsNCountWitness ==
  /\ mode = "idle" /\ call.op = "WordsN" /\ call.num = 2
  /\ Cardinality(result) = 2
  /\ Returned = result
  /\ Cardinality(Traits_Words(traits)) > 2

\* C8: Words() and WordsN() of one State draw from one pool: the first Words()
\* returns exactly the complete set less the words returned before by WordsN
\* calls, and every call that returns after a Words() returns the empty set.
SharedPool ==
  [][/\ (mode = "walk" /\ call.op = "Words" /\ mode' = "idle")
          => result' = Traits_Words(traits) \ Returned
     /\ (eos > 0 /\ mode # "idle" /\ mode' = "idle")
          => result' = {}]_vars

SharedPoolWitness ==
  /\ mode = "idle" /\ eos = 1 /\ call.op = "Words"
  /\ result # {}
  /\ Returned \ result # {}
  /\ Returned = Traits_Words(traits)

\* the numeric criteria of validPart hold of the input
CapsPass ==
  /\ Traits_countVowels(traits, input) <= traits.MaxNVowels
  /\ maxConsequtiveVowels(input, Traits_knownVowels(traits)) <= traits.MaxConseqVow
  /\ maxConsequtiveConsonants(input, Traits_knownVowels(traits)) <= traits.MaxConseqCons

\* C11: validPart rejects every sequence of sounds in which some adjacent
\* pair occurs more than twice.
NoPairThrice ==
  (mode = "done" /\ \E i \in 2 .. Len(input) :
                      countPair(input, input[i-1], input[i]) > 2)
    => result = FALSE

\* C12: for a single sound that passes the numeric criteria, validPart is
\* true exactly when the sound is the first of some pair of PairSet.
SingleNeedsPair ==
  (mode = "done" /\ Len(input) = 1 /\ CapsPass)
    => (result = (\E pair \in traits.PairSet : pair[1] = input[1]))

\* C13: validPart rejects every sequence of four or more sounds in which a
\* pair equals the pair two positions before it, wherever in the sequence
\* that happens.
NoImmediateRecurrence ==
  (mode = "done" /\ \E i \in 4 .. Len(input) :
                      <<input[i-3], input[i-2]>> = <<input[i-1], input[i]>>)
    => result = FALSE

\* a sequence within the numeric criteria is rejected for a recurrence that
\* is not at its end
NoImmediateRecurrenceWitness ==
  /\ mode = "done" /\ result = FALSE /\ CapsPass
  /\ Len(input) >= 5
  /\ \E i \in 4 .. Len(input) - 1 :
       <<input[i-3], input[i-2]>> = <<input[i-1], input[i]>>
  /\ <<input[Len(input)-3], input[Len(input)-2]>>
       # <<input[Len(input)-1], input[Len(input)]>>
  /\ \A i \in 2 .. Len(input) : countPair(input, input[i-1], input[i]) <= 2

\* the sounds of a word of the sample, under the known sounds in force
Toks(w) == getSounds(w, Traits_knownSounds(traits)).sounds

MinOf(S) == CHOOSE x \in S : \A y \in S : x <= y

MaxOf(S) == CHOOSE x \in S : \A y \in S : x >= y

SampleToks == {Toks(sample[i]) : i \in DOMAIN sample}

\* Examine or NewTraits has returned without error from a non-empty sample
Succeeded == mode = "done" /\ call.op \in {"Examine", "NewTraits"}
               /\ result.err = "" /\ sample # <<>>

Failed == mode = "done" /\ call.op \in {"Examine", "NewTraits"} /\ result.err # ""

\* C14: after a successful extraction from a non-empty sample, MinNSounds
\* and MaxNSounds are the least and greatest number of sounds of a word,
\* MaxConseqVow and MaxConseqCons the greatest run of vowels and of
\* consonants in a word, SoundSet exactly the sounds of the words and PairSet
\* exactly their adjacent pairs, none reversed.
TraitsOfSample ==
  Succeeded =>
    /\ traits.MinNSounds = MinOf({Len(t) : t \in SampleToks})
    /\ traits.MaxNSounds = MaxOf({Len(t) : t \in SampleToks})
    /\ traits.MaxConseqVow =
         MaxOf({maxConsequtiveVowels(t, Traits_knownVowels(traits)) : t \in SampleToks})
    /\ traits.MaxConseqCons =
         MaxOf({maxConsequtiveConsonants(t, Traits_knownVowels(traits)) : t \in SampleToks})
    /\ traits.SoundSet = UNION {SeqToSet(t) : t \in SampleToks}
    /\ traits.PairSet =
         UNION {{<<t[i], t[i+1]>> : i \in 1 .. Len(t) - 1} : t \in SampleToks}

\* two words of different lengths, and a pair whose reverse is no pair
TraitsOfSampleWitness ==
  /\ Succeeded
  /\ traits.MinNSounds < traits.MaxNSounds
  /\ \E pair \in traits.PairSet : <<pair[2], pair[1]>> \notin traits.PairSet

\* C15: after a successful extraction from a non-empty sample, in any order
\* of its words, MinNVowels and MaxNVowels are the least and greatest number
\* of vowels of a word, words without vowels included.
VowelsOfSample ==
  Succeeded =>
    /\ traits.MinNVowels = MinOf({Traits_countVowels(traits, t) : t \in SampleToks})
    /\ traits.MaxNVowels = MaxOf({Traits_countVowels(traits, t) : t \in SampleToks})

\* C16: after a successful extraction from a non-empty sample into a fresh
\* Traits: 1 <= MinNSounds <= MaxNSounds, 0 <= MinNVowels <= MaxNVowels <=
\* MaxNSounds, MaxConseqVow <= MaxNVowels, PairSet is not empty and both
\* sounds of every pair are in SoundSet.
TraitsWellFormed ==
  Succeeded =>
    /\ 1 <= traits.MinNSounds /\ traits.MinNSounds <= traits.MaxNSounds
    /\ 0 <= traits.MinNVowels /\ traits.MinNVowels <= traits.MaxNVowels
    /\ traits.MaxNVowels <= traits.MaxNSounds
    /\ traits.MaxConseqVow <= traits.MaxNVowels
    /\ traits.PairSet # {}
    /\ \A pair \in traits.PairSet :
         pair[1] \in traits.SoundSet /\ pair[2] \in traits.SoundSet

TraitsWellFormedWitness ==
  /\ Succeeded
  /\ Len(sample) >= 2
  /\ 0 < traits.MinNVowels /\ traits.MinNVowels < traits.MaxNVowels
  /\ traits.MaxConseqVow > 1

\* a word Examine must refuse: too short or too long, or not tokenized, or
\* of fewer than two sounds
BadWord(w) ==
  \/ Len(w) < 2 \/ Len(w) > 32
  \/ ~getSounds(w, Traits_knownSounds(traits)).ok
  \/ Len(Toks(w)) < 2

\* C17: when some word of the sample is shorter than 2 or longer than 32
\* characters, or is not tokenized under the known sounds in force, or has
\* fewer than two sounds, Examine and NewTraits return an error, and NewTraits
\* no Traits.
BadWordFails ==
  (mode = "done" /\ call.op \in {"Examine", "NewTraits"}
     /\ \E i \in DOMAIN sample : BadWord(sample[i]))
    => result.err # "" /\ result.traits = <<>>

\* a word of 33 characters after a word of 32 has been refused
BadWordFailsWitness ==
  /\ Failed
  /\ Len(sample) = 2 /\ Len(sample[1]) = 32 /\ Len(sample[2]) = 33
  /\ call.left = 0

\* C18: the error returned is that of the first word, in the order of the
\* sample, that must be refused, no later word is examined, and the error is
\* that of the first test the word fails: length, then tokenization, then the
\* two sounds.
FirstFailure ==
  Failed =>
    LET k == call.num - call.left IN
    /\ k \in DOMAIN sample
    /\ BadWord(sample[k])
    /\ \A j \in 1 .. k - 1 : ~BadWord(sample[j])
    /\ result.err = IF Len(sample[k]) < 2 \/ Len(sample[k]) > 32 THEN "length"
                    ELSE IF ~getSounds(sample[k], Traits_knownSounds(traits)).ok
                      THEN "symbol"
                    ELSE "sounds"

\* the word refused for its length would not tokenize either, and words
\* that must be refused follow it
FirstFailureWitness ==
  /\ Failed
  /\ call.left > 0
  /\ result.err = "length"
  /\ ~getSounds(sample[call.num - call.left], Traits_knownSounds(traits)).ok
  /\ BadWord(sample[Len(sample)])

\* C19: when Examine or NewTraits fails, the caller holds no Traits with
\* the contribution of the words examined before the failing one: NewTraits
\* returns no Traits, and the receiver of Examine is as it was.
FailureLeavesNoTrace ==
  Failed => /\ result.traits = <<>>
            /\ call.op = "Examine" => traits \in Receivers

\* C20: when getSounds succeeds, the concatenation of the sounds it returns
\* is the word, and every sound is a member of the set of known sounds.
TokensRoundTrip ==
  (mode = "done" /\ result.ok)
    => /\ join(result.sounds) = input.word
       /\ SeqToSet(result.sounds) \subseteq input.known

\* a word of a digraph between two monographs
TokensRoundTripWitness ==
  /\ mode = "done" /\ result.ok
  /\ Len(result.sounds) = 3
  /\ Len(result.sounds[2]) = 2
  /\ Len(input.word) = 4

\* the position in the word of the first character of the j-th sound
RECURSIVE StartOf(_, _)
StartOf(sounds, j) == IF j = 1 THEN 1 ELSE StartOf(sounds, j - 1) + Len(sounds[j-1])

\* C21: where getSounds has returned a sound of one character, the two
\* characters from that position on are no known sound, so a known digraph
\* is always taken, a known monograph at the same position notwithstanding;
\* with the known sounds ch, c, h the word chch gives the sounds ch, ch.
DigraphFirst ==
  (mode = "done" /\ result.ok) =>
    /\ \A j \in DOMAIN result.sounds :
         LET p == StartOf(result.sounds, j) IN
         Len(result.sounds[j]) = 1 =>
           ~ (p + 1 <= Len(input.word)
                /\ <<input.word[p], input.word[p+1]>> \in input.known)
    /\ input = Chch => result.sounds = << <<"c", "h">>, <<"c", "h">> >>

DigraphFirstWitness ==
  /\ mode = "done" /\ result.ok
  /\ input = Chch
  /\ Len(result.sounds) = 2

\* the set in use: the one of the traits when it is not empty, else the default
ActiveSet(own, default) == IF own = {} THEN default ELSE own

\* C22: a non-empty KnownSounds or KnownVowels of the traits is the only set
\* used, by the extraction and by the validators, and an empty one stands for
\* the default table: a successful extraction has split every word into
\* sounds of the set in use and counted as vowels the members of the vowel set
\* in use; a word of valid length that does not split into sounds of the set
\* in use fails with the unknown-symbol error, whatever the default table
\* says; the validators count the vowels of the vowel set in use.
OverrideOnly ==
  LET S == ActiveSet(traits.KnownSounds, knownSounds)
      V == ActiveSet(traits.KnownVowels, knownVowels)
      nVow(t) == Cardinality({i \in DOMAIN t : t[i] \in V})
  IN
  /\ Succeeded =>
       /\ \A i \in DOMAIN sample : getSounds(sample[i], S).ok
       /\ traits.SoundSet \subseteq S
       /\ traits.MaxNVowels =
            MaxOf({nVow(getSounds(sample[i], S).sounds) : i \in DOMAIN sample})
  /\ Failed =>
       LET w == sample[call.num - call.left] IN
       /\ (validLength(w) /\ ~getSounds(w, S).ok) => result.err = "symbol"
       /\ result.err = "symbol" => ~getSounds(w, S).ok
  /\ mode = "checked" =>
       /\ result.complete =
            (/\ nVow(input) >= traits.MinNVowels
             /\ nVow(input) <= traits.MaxNVowels
             /\ Len(input) >= traits.MinNSounds
             /\ Len(input) <= traits.MaxNSounds)
       /\ nVow(input) > traits.MaxNVowels => ~result.part

\* a word of default sounds has failed on traits with sounds of their own,
\* or the validators have counted the vowels of traits with vowels of their own
OverrideOnlyWitness ==
  \/ /\ Failed /\ result.err = "symbol"
     /\ traits.KnownSounds # {}
     /\ getSounds(sample[call.num - call.left], knownSounds).ok
  \/ /\ mode = "checked" /\ result.complete
     /\ traits.KnownVowels # {} /\ traits.KnownSounds = {}
     /\ \E i \in DOMAIN input : input[i] \in traits.KnownVowels

SidecarStep(t, u, walked) ==
  \* a child map is filled when it comes into being, by sprout, and loses keys
  \* from then on
  /\ \A q \in DOMAIN u.kids :
       IF q \in DOMAIN t.kids THEN u.kids[q] \subseteq t.kids[q]
       ELSE u.kids[q] = sprout(traits.PairSet, q)
  \* a node comes into being under a key its parent still has
  /\ \A q \in u.made \ t.made :
       \/ q = <<>>
       \/ LET parent == SubSeq(q, 1, Len(q) - 1) IN
            parent \in DOMAIN t.kids /\ q[Len(q)] \in t.kids[parent]
  \* the visited flag of a node that stays is never cleared
  /\ \A q \in t.visited : q \in u.made => q \in u.visited
  \* the walk is at nodes of the tree only, each under a key of its parent
  /\ \A q \in walked :
       /\ q \in u.made
       /\ \A k \in 1 .. Len(q) : q[k] \in u.kids[SubSeq(q, 1, k - 1)]

\* C24: the child map of a node is filled at most once and only loses keys
\* afterwards, a visited flag once set stays set, and a removed child entry
\* never comes back: no node is made and no path walked but under keys that
\* are still there.
SidecarMonotone ==
  [][SidecarStep(tree, tree', {stack'[i].sounds : i \in DOMAIN stack'})]_vars

\* in the middle of a walk a key of the root is gone and a node is visited
SidecarMonotoneWitness ==
  /\ mode = "walk"
  /\ <<>> \in DOMAIN tree.kids
  /\ tree.kids[<<>>] # sprout(traits.PairSet, <<>>)
  /\ tree.kids[<<>>] # {}
  /\ tree.visited # {}

\* the child maps and the visited flags of t are those of u as well
Kept(t, u) ==
  /\ t.made \subseteq u.made
  /\ t.visited \subseteq u.visited
  /\ \A q \in DOMAIN t.kids : q \in DOMAIN u.kids /\ u.kids[q] = t.kids[q]

\* C25: a call delivers at most one word: nothing is delivered while the walk
\* goes on, and the walk ends with the first word, which is the result of the
\* call and whose node is marked; the deletions and the marks made before the
\* word are in the tree when the call returns and when the next call starts.
OneWordPerCall ==
  [][/\ mode' = "walk" => out' = out /\ result' = result
     /\ (mode = "walk" /\ mode' = "idle") =>
          /\ stack' = <<>>
          /\ Kept(tree, tree')
          /\ IF eos' = eos
               THEN /\ result' # <<>>
                    /\ out' = Bump(out, result')
                    /\ \E q \in tree'.visited : join(q) = result'
               ELSE result' = <<>> /\ out' = out
     /\ (mode = "idle" /\ mode' = "walk") =>
          /\ tree'.visited = tree.visited
          /\ \A q \in DOMAIN tree.kids : tree'.kids[q] = tree.kids[q]]_vars

\* a second call has started on a tree that has lost a key of the root and
\* has a visited node
OneWordPerCallWitness ==
  /\ mode = "walk"
  /\ Cardinality(Returned) = 1
  /\ tree.visited # {}
  /\ tree.kids[<<>>] # sprout(traits.PairSet, <<>>)
  /\ Len(stack) = 1 /\ Top.pc = "loop" /\ Top.todo = tree.kids[<<>>]

\* C26: the panic of interrupt() never leaves the call: the call in which a
\* word is found returns normally with that word; a panic of any other value
\* raised during the walk, such as the nil dereference of a generator made
\* from a nil *Traits, leaves the call with its value unchanged.
SignalContained ==
  [][/\ (mode = "walk" /\ out' # out) =>
          mode' = "idle" /\ result' \in DOMAIN out'
     /\ mode' = "panic" => result' # <<panicMsg>>
     /\ (mode = "idle" /\ traits.isNil /\ mode' # mode) =>
          mode' = "panic" /\ result' = <<NilDeref>>
     /\ (mode = "idle" /\ traits.isNil) => mode' # "idle"]_vars

\* the call of a generator of a nil *Traits has panicked
SignalContainedWitness ==
  /\ mode = "panic"
  /\ traits.isNil
  /\ result = <<NilDeref>>
  /\ <<>> \in tree.made

\* C27: a generator never changes the Traits it was made from, and of two
\* generators made from the same Traits and run in any interleaving neither
\* returns a word twice and each, once it has returned end-of-stream, has
\* returned the complete set of words of the Traits.
Independent ==
  /\ [][traits' = traits]_vars
  /\ [](\A g \in {Generator(tree, stack, mode, result, out, eos), other} :
          /\ \A w \in DOMAIN g.out : g.out[w] <= 1
          /\ g.eos > 0 => DOMAIN g.out = Traits_Words(traits))

\* both generators are exhausted and have returned the same two or more words
IndependentWitness ==
  /\ other # <<>>
  /\ eos > 0 /\ other.eos > 0
  /\ Cardinality(Returned) >= 2
  /\ DOMAIN other.out = Returned

\* C28: Traits.Words never changes the traits, and whatever the order in
\* which the ranges over PairSet deliver the pairs, every call returns the
\* same set, the one that does not depend on an order.
PureWalker ==
  /\ [][traits' = traits]_vars
  /\ [][(mode = "walk" /\ mode' = "idle" /\ call.num > 0) => result' = result]_vars
  /\ [](mode = "idle" /\ call.num > 0 => result = Traits_Words(traits))

\* the second call has returned two or more words of traits of three or more
\* pairs, two of them with the same first sound
PureWalkerWitness ==
  /\ mode = "idle" /\ call.num = 2
  /\ Cardinality(result) >= 2
  /\ Cardinality(traits.PairSet) >= 3
  /\ \E p, q \in traits.PairSet : p # q /\ p[1] = q[1]

\* Words has returned on traits of exactly one pair
OnePair == mode = "idle" /\ call.num > 0 /\ Cardinality(traits.PairSet) = 1

ThePair == CHOOSE pair \in traits.PairSet : TRUE

\* the sound a, n times
Rep(a, n) == [i \in 1 .. n |-> a]

\* C29, as stated: on traits of exactly one pair (a, b) Words returns the one
\* word a b when a, b is a valid complete word, and the empty set otherwise.
SinglePairWord ==
  OnePair =>
    LET w == <<ThePair[1], ThePair[2]>> IN
    result = IF validPart1(traits, w) /\ checkPart1(traits, w)
               THEN {join(w)} ELSE {}

\* C29, amended: that holds when a and b are different sounds; on the one
\* pair (a, a) Words returns every repetition of a, of two or more sounds,
\* that is a valid complete word and whose shorter repetitions are valid
\* partial words.
SinglePairWords ==
  OnePair =>
    LET a == ThePair[1]
        b == ThePair[2]
        w == <<a, b>>
    IN IF a # b
         THEN result = IF validPart1(traits, w) /\ checkPart1(traits, w)
                         THEN {join(w)} ELSE {}
         ELSE result =
                {join(Rep(a, n)) : n \in {m \in 2 .. 5 :
                    /\ \A k \in 2 .. m : validPart1(traits, Rep(a, k))
                    /\ checkPart1(traits, Rep(a, m))}}

\* the one word of a pair of two different sounds has been returned
SinglePairWordsWitness ==
  /\ OnePair
  /\ ThePair[1] # ThePair[2]
  /\ result = {join(<<ThePair[1], ThePair[2]>>)}

\* C31: the visitor is given a path only after the walk of the node of that
\* path has returned: while the visitor works on a path, in the first call
\* and in every later one, the child map of the node of the path is there and
\* is empty.
PostOrder ==
  \A i \in DOMAIN stack :
    stack[i].pc = "iter" =>
      LET p == Append(stack[i].sounds, stack[i].cur) IN
      /\ p \in DOMAIN tree.kids
      /\ tree.kids[p] = {}

\* in a later call the visitor works on a path whose node had children
PostOrderWitness ==
  /\ mode = "walk" /\ Returned # {}
  /\ Top.pc = "iter"
  /\ sprout(traits.PairSet, Append(Top.sounds, Top.cur)) # {}
  /\ \E b \in sprout(traits.PairSet, Append(Top.sounds, Top.cur)) :
       validPart(traits, Append(Append(Top.sounds, Top.cur), b))

\* the paths of the nodes of the sidecar tree, and those one sound longer
NearPaths ==
  tree.made \cup {Append(p, b) : p \in tree.made, b \in traits.SoundSet}

\* C32: every word returned is a valid complete word of the traits, its
\* sounds a valid partial word that passes checkPart, although the visitor
\* of walkRandom tests checkPart only; and every prefix of one or more sounds
\* of a valid partial word is a valid partial word (tested between the
\* calls, on the paths of the tree and on those one sound longer).
WordsAreComplete ==
  /\ \A w \in Returned :
       validPart(traits, SoundsOf(w)) /\ checkPart(traits, SoundsOf(w))
  /\ mode = "idle" =>
       \A p \in NearPaths :
         (p # <<>> /\ validPart(traits, p)) =>
           \A k \in 1 .. Len(p) : validPart(traits, SubSeq(p, 1, k))

\* a word shorter than the leaf path it was found on has been returned
WordsAreCompleteWitness ==
  /\ mode = "idle"
  /\ \E w \in Returned :
       /\ SoundsOf(w) \in tree.made
       /\ \E p \in tree.made : p # SoundsOf(w) /\ IsPrefix(SoundsOf(w), p)
  /\ \E p \in NearPaths : Len(p) >= 3 /\ validPart(traits, p)
  /\ \E p \in NearPaths : p # <<>> /\ ~validPart(traits, p)

\* C33: for every word of the traits there are draws of permutate and of
\* shuffle under which it is the first word returned: the draws that stay
\* on course to the word are draws of the generator, and under them the
\* first call returns the word, be its path a leaf of the virtual tree or not.
AnyWordFirst ==
  /\ [][Next]_vars
  /\ <>(mode = "idle" /\ DOMAIN out = {join(input)})

\* the first word returned is not the whole of a leaf path
AnyWordFirstWitness ==
  /\ mode = "idle"
  /\ DOMAIN out = {join(input)}
  /\ \E p \in VirtualTree(traits) : p # input /\ IsPrefix(input, p)
  /\ Cardinality(WordPaths(traits)) >= 3

\* C34: between two calls no word is lost: for every path of the virtual
\* tree that is a complete word and has not been returned, no key on the way
\* from the root to its node has been deleted from a child map that is
\* there, and its node is not marked visited.
NoWordLost ==
  mode = "idle" =>
    \A p \in WordPaths(traits) :
      join(p) \notin Returned =>
        /\ p \notin tree.visited
        /\ \A k \in 1 .. Len(p) :
             LET q == SubSeq(p, 1, k - 1) IN
             q \in DOMAIN tree.kids => p[k] \in tree.kids[q]

\* after an early exit a word not yet returned lies below a visited node,
\* and keys have been deleted elsewhere
NoWordLostWitness ==
  /\ mode = "idle" /\ Returned # {}
  /\ \E p \in WordPaths(traits) :
       /\ join(p) \notin Returned
       /\ p \in tree.made
       /\ \E q \in tree.visited : q # p /\ IsPrefix(q, p)
  /\ \E q \in DOMAIN tree.kids : tree.kids[q] # sprout(traits.PairSet, q)

\* C35: tokenizing a returned word again, with the known sounds of the
\* traits, gives the very path of sounds that was joined into it, for the
\* generator at every word it returns and for the paths of the pure walker;
\* so no two paths of the walker are joined into the same word.
Retokenized ==
  /\ [][out' # out =>
          \A p \in tree'.visited \ tree.visited :
            /\ join(p) = result'
            /\ getSounds(result', Traits_knownSounds(traits)).ok
            /\ getSounds(result', Traits_knownSounds(traits)).sounds = p]_vars
  /\ [](eos > 0 =>
          \A p \in Traits_walk(traits, <<>>) :
            /\ getSounds(join(p), Traits_knownSounds(traits)).ok
            /\ getSounds(join(p), Traits_knownSounds(traits)).sounds = p
            /\ \A q \in Traits_walk(traits, <<>>) : join(q) = join(p) => q = p)

\* all the words are returned, one of them with the digraph sh next to a
\* sound of one character
RetokenizedWitness ==
  /\ eos > 0
  /\ \E p \in Traits_walk(traits, <<>>) :
       /\ join(p) \in Returned
       /\ Len(join(p)) > Len(p)
       /\ \E i \in DOMAIN p : Len(p[i]) = 1

\* the sequence s with the elements at i and j exchanged
Swap(s, i, j) ==
  [k \in DOMAIN s |-> IF k = i THEN s[j] ELSE IF k = j THEN s[i] ELSE s[k]]

\* C36: the extraction does not depend on the order of the sample: NewTraits
\* of the sample with any two words exchanged, and so of any permutation of
\* it, fails when NewTraits of the sample fails and returns equal Traits when
\* it succeeds.
OrderFree ==
  (mode = "done" /\ call.op = "NewTraits") =>
    \A i, j \in DOMAIN sample :
      LET r == NewTraits(Swap(sample, i, j)) IN
      /\ (r.err = "") = (result.err = "")
      /\ result.err = "" => r.traits = traits

\* C37: after a successful extraction every word of the sample is a word of
\* the traits: its sounds are a valid partial word that passes checkPart.
SampleWordsAreWords ==
  Succeeded =>
    \A i \in DOMAIN sample :
      validPart(traits, Toks(sample[i])) /\ checkPart(traits, Toks(sample[i]))

\* C38: examineWord refuses a word before it merges anything: in the turn
\* of the loop that ends with an error, for the length, for an unknown symbol
\* or for fewer than two sounds, no field of the traits changes.
RejectIsAtomic ==
  [][(mode = "examine" /\ mode' = "done" /\ result'.err # "") =>
       traits' = traits]_vars

\* a word of a single digraph has been refused after a word was merged
RejectIsAtomicWitness ==
  /\ Failed /\ result.err = "sounds"
  /\ call.num - call.left = 2
  /\ Len(sample[2]) = 2
  /\ traits.PairSet # {}

====
